---- MODULE Spec2Model ----
(***************************************************************************)
(* Scene-asset generation and video-assembly pipeline of the safety        *)
(* training video creator:                                                 *)
(*   - runWithConcurrency, the bounded worker pool of useVideoGeneration   *)
(*   - createVideo / cancelVideoGeneration and the client fetch helpers    *)
(*   - the assemble-video route handler and its workspace                  *)
(*   - the caption segmentation and timing computed by the handler         *)
(***************************************************************************)
EXTENDS Integers, Sequences, FiniteSets, TLC

(***************************************************************************)
(* Bounds of the model                                                     *)
(***************************************************************************)
\* largest number of items handed to runWithConcurrency
MaxItems == 4
\* largest number of scenes in a createVideo batch
MaxBatch == 2
\* largest number of scenes of an assemble-video request enumerated freely
MaxReqScenes == 2
\* last millisecond of the clock
MaxTime == 1
\* numbers of words of a sentence of a narration
SentenceWords == {1, 2, 3, 6}
\* most sentences of a narration
MaxSentences == 2
\* lengths of the words of a narration
WordLens == {3, 10, 46}
\* scene durations, in eighths of a second: 2 s, 3.5 s, 9 s
DurationsInEighths == {16, 28, 72}

(***************************************************************************)
(* Program constants                                                       *)
(***************************************************************************)
SCENE_ASSET_CONCURRENCY == 3
\* fetchWithRetry's default number of retries
DEFAULT_RETRIES == 2
\* largest scene list the assemble-video schema accepts
MAX_SCENES == 10
\* shortest rendered scene, in seconds
MIN_SCENE_DURATION == 3
\* SESSION_COST_BLOCK, in cents
SESSION_COST_BLOCK == 50
\* estimateSceneCost of a dall-e-3 standard image plus a short narration, in cents
SceneCostCents == 4
\* longest caption text kept of a narration
MAX_CAPTION_LENGTH == 120
\* longest line of caption text the segmenter aims at
maxCharsPerSegment == 45

\* the values an abstract task fn may resolve with
Values == {"v1", "v2"}
\* an unset slot of `new Array(items.length)`
Hole == "hole"

Min(a, b) == IF a <= b THEN a ELSE b

\* bounds of the retry, timeout, throttle and regeneration models
MaxAttempts == 2
MaxNow == 4
MaxCalls == 3
MaxRegen == 3
MaxHookBatch == 1
MaxRetries == 3
MaxWindows == 3
MaxEdits == 2

\* lib/retry.ts
DEFAULT_ATTEMPTS == 3
INITIAL_MS == 1000
\* lib/constants.ts
REPLICATE_THROTTLE_MS == 10000
\* lib/constants.ts
RATE_LIMIT_REQUESTS == 30
RATE_LIMIT_WINDOW_MS == 60000


VARIABLES
  \* ---- runWithConcurrency ----
  items,        \* the items array (a sequence; items[i+1] is the source's items[i])
  concurrency,  \* the concurrency argument
  nextIndex,    \* the shared cursor
  results,      \* the pre-sized results array, indexed 0..n-1
  workers,      \* worker promises: [st, i], indexed 0..k-1
  fnState,      \* per index: state of the promise returned by fn(items[i], i)
  fnValue,      \* per index: the value that promise resolved with
  fnErr,        \* per index: the error that promise rejected with
  poolState,    \* the promise returned by runWithConcurrency
  poolErr,      \* the error that promise rejected with
  fnCalls,      \* history: per index, how many times fn was called on it
  \* ---- useVideoGeneration / createVideo ----
  cv,           \* position of the createVideo invocation
  cvResult,     \* what createVideo returned
  abortRef,     \* abortControllerRef.current: "null" or "controller"
  aborted,      \* controller.signal.aborted
  req,          \* per client request: [pc, i] of its fetchWithRetry / body read
  scenePc,      \* per scene: position inside generateSceneAsset
  assets,       \* the assets state of the hook
  videoBlobUrl, \* the videoBlobUrl state of the hook
  totalCost,    \* CostContext total, in cents
  completed,    \* createVideo's completed counter
  genuineFailure,  \* history: some request or probe failed on its own
  \* ---- assemble-video route ----
  hs,           \* per request of the route: the handler invocation
  fs,           \* the temp directory tree: per workspace name, its files or Absent
  clock,        \* Date.now()
  \* ---- caption segmentation and timing ----
  cap,          \* the caption computation of one scene
  \* ---- lib/retry, lib/timeout, lib/replicate-throttle ----
  rt,           \* the withRetry call
  tw,           \* the withTimeout call wrapped around it
  thr,          \* lastCallTime and the calls of withReplicateThrottle
  now,          \* Date.now() of the helpers above
  \* ---- useVideoGeneration / regenerateScene ----
  rg,           \* the regenerateScene call, the arrays and the revoked URLs
  \* ---- lib/api-client ----
  fw,           \* a fetchWithRetry call with its retries argument
  \* ---- lib/rate-limit, lib/with-api-handler ----
  rl,           \* memoryStore and, per key, the history of its windows
  \* ---- useVideoGeneration: regenerateScene invoked twice ----
  rr,           \* the assets state, the refs and two regenerateScene calls
  \* ---- useScriptGeneration, useDebouncedCallback, handleCreateVideo ----
  nr            \* the narration edits, the debounce timer and the scenes passed on

poolVars == <<items, concurrency, nextIndex, results, workers, fnState, fnValue, fnErr,
              poolState, poolErr, fnCalls>>

createVars == <<cv, cvResult, abortRef, aborted, req, scenePc, assets, videoBlobUrl,
                totalCost, completed, genuineFailure>>

assembleVars == <<hs, fs, clock>>

captionVars == <<cap>>

libVars == <<rt, tw, thr, now, rg>>

moreVars == <<fw, rl, rr, nr>>

vars == <<poolVars, createVars, assembleVars, captionVars, libVars, moreVars>>

NItems == Len(items)
Indices == 0 .. (NItems - 1)

(***************************************************************************)
(* runWithConcurrency                                                      *)
(***************************************************************************)
\* Array(Math.min(concurrency, items.length)): the number of workers
WorkerCountUnbounded(c, n) == n
WorkerCount(c, n) == Min(c, n)

\* results[i] = await fn(items[i], i): the slot written is the worker's own i
WriteResultAppend(res, i, v) ==
  LET holes == {j \in DOMAIN res : res[j] = Hole}
      first == CHOOSE j \in holes : \A h \in holes : j <= h
  IN  [res EXCEPT ![first] = v]
WriteResult(res, i, v) == [res EXCEPT ![i] = v]

\* const i = nextIndex++: the value of nextIndex after the claim
ClaimSame(n) == n
ClaimNext(n) == n + 1

\* The call runWithConcurrency(items, concurrency, fn): allocates results,
\* and every worker() runs synchronously up to its first await, so worker w
\* claims index w and calls fn on it.
PoolStart ==
  /\ poolState = "idle"
  /\ LET k == WorkerCount(concurrency, NItems) IN
     /\ nextIndex' = Min(k, NItems)
     /\ workers' = [w \in 0 .. (k - 1) |->
                      IF w < NItems THEN [st |-> "awaiting", i |-> w]
                                    ELSE [st |-> "done", i |-> -1]]
     /\ fnState' = [i \in Indices |-> IF i < k THEN "running" ELSE "unstarted"]
     /\ fnCalls' = [i \in Indices |-> IF i < k THEN 1 ELSE 0]
     /\ results' = [i \in Indices |-> Hole]
     /\ poolState' = IF k = 0 THEN "resolved" ELSE "running"
  /\ UNCHANGED <<items, concurrency, fnValue, fnErr, poolErr>>

\* Promise.all(workers): rejected by the first rejected worker, resolved
\* once every worker has returned.
AllSettleIgnoringRejections(ws, ps) ==
  IF ps # "running" THEN ps
  ELSE IF \A w \in DOMAIN ws : ws[w].st \in {"done", "rejected"} THEN "resolved"
  ELSE "running"
AllSettle(ws, ps) ==
  IF ps # "running" THEN ps
  ELSE IF \E w \in DOMAIN ws : ws[w].st = "rejected" THEN "rejected"
  ELSE IF \A w \in DOMAIN ws : ws[w].st = "done" THEN "resolved"
  ELSE "running"

\* A worker resumes after its await: stores the value at its own index and
\* loops (claims the next index and calls fn), or rethrows the rejection.
WorkerResume(w) ==
  /\ w \in DOMAIN workers
  /\ workers[w].st = "awaiting"
  /\ LET i == workers[w].i IN
     /\ fnState[i] \in {"resolved", "rejected"}
     /\ IF fnState[i] = "rejected"
        THEN /\ workers' = [workers EXCEPT ![w].st = "rejected"]
             /\ UNCHANGED <<results, nextIndex, fnState, fnCalls>>
        ELSE /\ results' = WriteResult(results, i, fnValue[i])
             /\ IF nextIndex < NItems
                THEN /\ workers' = [workers EXCEPT ![w].i = nextIndex]
                     /\ fnState' = [fnState EXCEPT ![nextIndex] = "running"]
                     /\ fnCalls' = [fnCalls EXCEPT ![nextIndex] = @ + 1]
                     /\ nextIndex' = ClaimNext(nextIndex)
                ELSE /\ workers' = [workers EXCEPT ![w].st = "done"]
                     /\ UNCHANGED <<nextIndex, fnState, fnCalls>>
     /\ poolState' = AllSettle(workers', poolState)
     /\ poolErr' = IF poolState = "running" /\ poolState' = "rejected"
                   THEN fnErr[i] ELSE poolErr
  /\ UNCHANGED <<items, concurrency, fnValue, fnErr>>

\* The task fn is a parameter of runWithConcurrency: an arbitrary async
\* function, which settles each call at any later time, either way.
FnResolve(i, v) ==
  /\ i \in Indices
  /\ fnState[i] = "running"
  /\ fnState' = [fnState EXCEPT ![i] = "resolved"]
  /\ fnValue' = [fnValue EXCEPT ![i] = v]
  /\ UNCHANGED <<items, concurrency, nextIndex, results, workers, poolState, fnErr, poolErr, fnCalls>>

FnReject(i, e) ==
  /\ i \in Indices
  /\ fnState[i] = "running"
  /\ fnState' = [fnState EXCEPT ![i] = "rejected"]
  /\ fnErr' = [fnErr EXCEPT ![i] = e]
  /\ UNCHANGED <<items, concurrency, nextIndex, results, workers, poolState, fnValue, poolErr, fnCalls>>

PoolIdle(n, c) ==
  /\ items = [j \in 1 .. n |-> j - 1]
  /\ concurrency = c
  /\ nextIndex = 0
  /\ results = <<>>
  /\ workers = <<>>
  /\ fnState = [i \in 0 .. (n - 1) |-> "unstarted"]
  /\ fnValue = [i \in 0 .. (n - 1) |-> Hole]
  /\ fnErr = [i \in 0 .. (n - 1) |-> "none"]
  /\ fnCalls = [i \in 0 .. (n - 1) |-> 0]
  /\ poolState = "idle"
  /\ poolErr = "none"

(***************************************************************************)
(* Client requests: fetchWithRetry, fetchJson, assembleVideo               *)
(***************************************************************************)
Kinds == {"visual", "audio"}
AsmId == <<-1, "assemble">>
ReqIds == ((0 .. (MaxBatch - 1)) \X Kinds) \cup {AsmId}
NoReq == [pc |-> "none", i |-> 0]
\* a request that has settled: the loop counter is gone
End(p) == [pc |-> p, i |-> 0]
\* the requests of a generateSceneAsset call that has thrown: nothing refers
\* to their results any more (a call still in flight goes on unawaited)
Released == [pc |-> "released", i |-> 0]

\* the history flag of failures that are not caused by the abort signal
Fails(b) == genuineFailure' = (genuineFailure \/ b)

\* for (let i = 0; i <= retries; i++): a retry is left after attempt i
RetryLeft(i) == i < DEFAULT_RETRIES

\* Each step below maps the record q = [pc, i] of a request to the set of
\* records it may become (empty when the step cannot happen).

\* fetch resolved with an ok response: fetchWithRetry returns it, and the
\* caller starts to read the body (res.json() or res.blob())
FetchOk(q) ==
  IF q.pc = "fetch" /\ ~aborted THEN {[pc |-> "readBody", i |-> 0]} ELSE {}

\* fetch resolved with a 5xx response: back off and retry, or return it
Fetch5xx(q) ==
  IF q.pc = "fetch" /\ ~aborted
  THEN {IF RetryLeft(q.i) THEN [pc |-> "backoff", i |-> q.i] ELSE End("fail")}
  ELSE {}

\* fetch resolved with another non-ok response: returned at once; the caller
\* reads the error with getApiError, which never throws
FetchNonOk(q) ==
  IF q.pc = "fetch" /\ ~aborted THEN {End("fail")} ELSE {}

\* fetch rejected with a network error: back off and retry, or rethrow
FetchNetErr(q) ==
  IF q.pc = "fetch" /\ ~aborted
  THEN {IF RetryLeft(q.i) THEN [pc |-> "backoff", i |-> q.i] ELSE End("NetError")}
  ELSE {}

\* fetch rejected with AbortError and the catch block treats it as a network
\* error: back off and retry
FetchAbortRetried(q) ==
  IF q.pc = "fetch" /\ aborted
  THEN {IF RetryLeft(q.i) THEN [pc |-> "backoff", i |-> q.i] ELSE End("AbortError")}
  ELSE {}

\* fetch rejected with AbortError (signal aborted before or during the call):
\* rethrown at once
FetchAbort(q) ==
  IF q.pc = "fetch" /\ aborted THEN {End("AbortError")} ELSE {}

\* the backoff timer fires (it ignores the signal): next attempt
BackoffDone(q) ==
  IF q.pc = "backoff" THEN {[pc |-> "fetch", i |-> q.i + 1]} ELSE {}

\* fetchJson: await res.json() succeeded
JsonRead(q) ==
  IF q.pc = "readBody" /\ ~aborted THEN {End("ok")} ELSE {}

\* fetchJson: wrong content type, or res.json() threw on a bad body:
\* {ok: false, error: 'Invalid response from server'}
JsonInvalid(q) ==
  IF q.pc = "readBody" /\ ~aborted THEN {End("fail")} ELSE {}

\* fetchJson: the signal was aborted while the body was read, res.json()
\* rejected with AbortError; the catch {} of fetchJson turns it into
\* {ok: false, error: 'Invalid response from server'}
JsonAbort(q) ==
  IF q.pc = "readBody" /\ aborted THEN {End("fail")} ELSE {}

\* assembleVideo: return res.blob() (no catch around it)
BlobRead(q) ==
  IF q.pc = "readBody" /\ ~aborted THEN {End("ok")} ELSE {}

\* assembleVideo: the signal was aborted while the blob was read
BlobAbort(q) ==
  IF q.pc = "readBody" /\ aborted THEN {End("AbortError")} ELSE {}

Settled(p) == p \in {"ok", "fail", "AbortError", "NetError"}
Thrown(p) == p \in {"AbortError", "NetError"}
\* the error object a thrown request surfaces as: name 'AbortError' or not
ErrOf(p) == IF p = "AbortError" THEN "AbortError" ELSE "Error"

(***************************************************************************)
(* generateSceneAsset and the task of createVideo                          *)
(***************************************************************************)
\* the SceneAssets value generateSceneAsset(scene, i) resolves with
Asset(i) == <<"asset0", "asset1", "asset2", "asset3", "asset4", "asset5">>[i + 1]

Other(k) == IF k = "visual" THEN "audio" ELSE "visual"

\* A step of one of the two fetchJson calls of generateSceneAsset(scene, i).
\* Promise.all rejects with the first thrown error (the other call goes on
\* unawaited); when both fetchJson calls have returned, a {ok: false} result
\* is thrown as a plain Error, otherwise the audio duration probe starts.
SceneRequestStep(i, k, next, failure) ==
  /\ i \in Indices
  /\ scenePc[i] = "requests"
  /\ \E q \in next :
       LET mine == q.pc
           other == req[<<i, Other(k)>>].pc
       IN
       IF Thrown(mine)
       THEN /\ req' = [req EXCEPT ![<<i, k>>] = Released, ![<<i, Other(k)>>] = Released]
            /\ scenePc' = [scenePc EXCEPT ![i] = "settled"]
            /\ fnState' = [fnState EXCEPT ![i] = "rejected"]
            /\ fnErr' = [fnErr EXCEPT ![i] = ErrOf(mine)]
       ELSE IF ~(mine \in {"ok", "fail"} /\ other \in {"ok", "fail"})
               THEN /\ req' = [req EXCEPT ![<<i, k>>] = q]
                    /\ UNCHANGED <<scenePc, fnState, fnErr>>
               ELSE IF mine = "fail" \/ other = "fail"
               THEN /\ req' = [req EXCEPT ![<<i, k>>] = Released, ![<<i, Other(k)>>] = Released]
                    /\ scenePc' = [scenePc EXCEPT ![i] = "settled"]
                    /\ fnState' = [fnState EXCEPT ![i] = "rejected"]
                    /\ fnErr' = [fnErr EXCEPT ![i] = "Error"]
               ELSE /\ req' = [req EXCEPT ![<<i, k>>] = q]
                    /\ scenePc' = [scenePc EXCEPT ![i] = "probe"]
                    /\ UNCHANGED <<fnState, fnErr>>
  /\ Fails(failure)
  /\ UNCHANGED <<items, concurrency, nextIndex, results, workers, fnValue, poolState, poolErr, fnCalls>>
  /\ UNCHANGED <<cv, cvResult, abortRef, aborted, assets, videoBlobUrl, totalCost,
                 completed>>

\* getAudioDuration resolved (loadedmetadata); the task of createVideo goes on:
\* addCost(sceneCost), onSceneComplete(), return asset
ProbeOk(i) ==
  /\ i \in Indices
  /\ scenePc[i] = "probe"
  /\ scenePc' = [scenePc EXCEPT ![i] = "settled"]
  /\ fnState' = [fnState EXCEPT ![i] = "resolved"]
  /\ fnValue' = [fnValue EXCEPT ![i] = Asset(i)]
  /\ totalCost' = totalCost + SceneCostCents
  /\ completed' = completed + 1
  /\ UNCHANGED <<items, concurrency, nextIndex, results, workers, fnErr, poolState, poolErr, fnCalls>>
  /\ UNCHANGED <<cv, cvResult, abortRef, aborted, req, assets, videoBlobUrl,
                 genuineFailure>>

\* getAudioDuration rejected ('Audio load failed')
ProbeFail(i) ==
  /\ i \in Indices
  /\ scenePc[i] = "probe"
  /\ scenePc' = [scenePc EXCEPT ![i] = "settled"]
  /\ fnState' = [fnState EXCEPT ![i] = "rejected"]
  /\ fnErr' = [fnErr EXCEPT ![i] = "Error"]
  /\ Fails(TRUE)
  /\ UNCHANGED <<items, concurrency, nextIndex, results, workers, fnValue, poolState, poolErr, fnCalls>>
  /\ UNCHANGED <<cv, cvResult, abortRef, aborted, req, assets, videoBlobUrl, totalCost,
                 completed>>

\* fn(items[i], i) has just been called for every index that turned running:
\* generateSceneAsset issues its two fetchJson calls
StartClaimed ==
  LET claimed == {i \in Indices : fnState[i] = "unstarted" /\ fnState'[i] = "running"} IN
  /\ req' = [r \in ReqIds |-> IF r[1] \in claimed THEN [pc |-> "fetch", i |-> 0] ELSE req[r]]
  /\ scenePc' = [i \in Indices |-> IF i \in claimed THEN "requests" ELSE scenePc[i]]

(***************************************************************************)
(* createVideo and cancelVideoGeneration                                   *)
(***************************************************************************)
\* canProceed(): totalCost < SESSION_COST_BLOCK
canProceed == totalCost < SESSION_COST_BLOCK

\* createVideo is invoked: cost gate, new AbortController, fetchProviderConfig
CreateVideoCall ==
  /\ cv = "idle"
  /\ IF ~canProceed
     THEN /\ cv' = "returned"
          /\ cvResult' = "blocked"
          /\ UNCHANGED <<abortRef, aborted>>
     ELSE /\ cv' = "config"
          /\ abortRef' = "controller"
          /\ aborted' = FALSE
          /\ UNCHANGED cvResult
  /\ UNCHANGED poolVars
  /\ UNCHANGED <<req, scenePc, assets, videoBlobUrl, totalCost, completed,
                 genuineFailure>>

\* fetchProviderConfig resolved; runWithConcurrency(scenes, 3, task) is called
ConfigDone ==
  /\ cv = "config"
  /\ PoolStart
  /\ StartClaimed
  /\ cv' = "generating"
  /\ UNCHANGED <<cvResult, abortRef, aborted, assets, videoBlobUrl, totalCost, completed,
                 genuineFailure>>

\* fetchProviderConfig rejected (fetch('/api/config') failed): the await is
\* outside the try, createVideo rejects and the finally block does not run
ConfigThrow ==
  /\ cv = "config"
  /\ cv' = "threw"
  /\ Fails(TRUE)
  /\ UNCHANGED poolVars
  /\ UNCHANGED <<cvResult, abortRef, aborted, req, scenePc, assets, videoBlobUrl, totalCost,
                 completed>>

\* a worker of the batch resumes
BatchWorkerResume(w) ==
  /\ WorkerResume(w)
  /\ StartClaimed
  /\ UNCHANGED <<cv, cvResult, abortRef, aborted, assets, videoBlobUrl, totalCost, completed,
                 genuineFailure>>

\* the catch block of createVideo
Outcome(e) == IF e = "AbortError" THEN "cancelled" ELSE "failed"

\* await runWithConcurrency(...) resolved: assembleVideo(newAssets, ...) is called
GenerationDone ==
  /\ cv = "generating" /\ poolState = "resolved"
  /\ cv' = "assembling"
  /\ req' = [req EXCEPT ![AsmId] = [pc |-> "fetch", i |-> 0]]
  /\ UNCHANGED poolVars
  /\ UNCHANGED <<cvResult, abortRef, aborted, scenePc, assets, videoBlobUrl, totalCost,
                 completed, genuineFailure>>

\* await runWithConcurrency(...) rejected: the catch block takes back the cost
\* of the scenes that had completed
GenerationFailedRollsBack ==
  /\ cv = "generating" /\ poolState = "rejected"
  /\ cv' = "returned"
  /\ cvResult' = Outcome(poolErr)
  /\ abortRef' = "null"
  /\ totalCost' = totalCost - SceneCostCents * completed
  /\ UNCHANGED poolVars
  /\ UNCHANGED <<aborted, req, scenePc, assets, videoBlobUrl, completed,
                 genuineFailure>>

\* await runWithConcurrency(...) rejected: catch, finally, return {ok: false}
GenerationFailed ==
  /\ cv = "generating" /\ poolState = "rejected"
  /\ cv' = "returned"
  /\ cvResult' = Outcome(poolErr)
  /\ abortRef' = "null"
  /\ UNCHANGED poolVars
  /\ UNCHANGED <<aborted, req, scenePc, assets, videoBlobUrl, totalCost, completed,
                 genuineFailure>>

\* a step of the assemble-video request; when it settles createVideo goes on:
\* on a blob setVideoBlobUrl, setAssets, return {ok: true}; on a non-ok
\* response or a thrown error the catch block; the finally block in all cases
AssembleRequestStep(next, failure) ==
  /\ cv = "assembling"
  /\ Fails(failure)
  /\ \E q \in next :
     /\ req' = [req EXCEPT ![AsmId] = q]
     /\ IF ~Settled(q.pc)
        THEN UNCHANGED <<cv, cvResult, abortRef, assets, videoBlobUrl>>
        ELSE
          /\ cv' = "returned"
          /\ abortRef' = "null"
          /\ IF q.pc = "ok"
             THEN /\ cvResult' = "ok"
                  /\ videoBlobUrl' = "batchUrl"
                  /\ assets' = results
             ELSE /\ cvResult' = Outcome(ErrOf(q.pc))
                  /\ UNCHANGED <<assets, videoBlobUrl>>
  /\ UNCHANGED poolVars
  /\ UNCHANGED <<aborted, scenePc, totalCost, completed>>

\* cancelVideoGeneration(): abort the controller of the batch in flight
CancelVideoGeneration ==
  /\ abortRef # "null"
  /\ ~aborted
  /\ aborted' = TRUE
  /\ UNCHANGED poolVars
  /\ UNCHANGED <<cv, cvResult, abortRef, req, scenePc, assets, videoBlobUrl, totalCost,
                 completed, genuineFailure>>

CreateIdle ==
  /\ cv = "idle"
  /\ cvResult = "none"
  /\ abortRef = "null"
  /\ aborted = FALSE
  /\ req = [r \in ReqIds |-> NoReq]
  /\ scenePc = [i \in Indices |-> "none"]
  /\ completed = 0
  /\ genuineFailure = FALSE

(***************************************************************************)
(* The assemble-video route: handleAssembleVideo under withApiHandler      *)
(***************************************************************************)
\* a path of the temp directory tree: no such directory, or its entries
Absent == [exists |-> FALSE, files |-> {}]
EmptyDir == [exists |-> TRUE, files |-> {}]

\* one scene of a request body, as far as the handler looks at it
ValidScenes ==
  [visual : {"image", "video"}, audio : {TRUE}, durationSeconds : {2, 5},
   narration : {"absent", "text"}]
InvalidScenes ==
  { [visual |-> "both", audio |-> TRUE, durationSeconds |-> 5, narration |-> "text"],
    [visual |-> "none", audio |-> TRUE, durationSeconds |-> 5, narration |-> "text"],
    [visual |-> "image", audio |-> FALSE, durationSeconds |-> 5, narration |-> "text"],
    [visual |-> "image", audio |-> TRUE, durationSeconds |-> 0, narration |-> "text"] }
SceneInputs == ValidScenes \cup InvalidScenes

\* The playing length of the audio of a scene, in seconds: the requests are
\* those in which durationSeconds is the length of the audio, as the client
\* measures it with getAudioDuration
AudioSeconds(sc) == sc.durationSeconds

SeqsUpTo(S, n) == UNION {[1 .. m -> S] : m \in 0 .. n}

\* a scene list one longer than the schema accepts
TooManyScenes ==
  [j \in 1 .. (MAX_SCENES + 1) |->
     [visual |-> "image", audio |-> TRUE, durationSeconds |-> 5, narration |-> "text"]]

\* request bodies: unparseable JSON (json = FALSE), or {scenes, captions}
Bodies ==
  {[json |-> FALSE, scenes |-> <<>>, captions |-> FALSE]} \cup
  [json : {TRUE}, scenes : SeqsUpTo(SceneInputs, MaxReqScenes) \cup {TooManyScenes},
   captions : BOOLEAN]

\* A request: its content-length header (absent under chunked transfer
\* encoding, else at most or above MAX_ASSEMBLE_BODY_BYTES), the size of the
\* body it carries against MAX_ASSEMBLE_BODY_BYTES, and the body. A request
\* with the header carries as many bytes as the header says.
Requests ==
  {rq \in [contentLength : {"absent", "small", "large"}, bytes : {"within", "over"},
           body : Bodies] :
     /\ rq.contentLength = "small" => rq.bytes = "within"
     /\ rq.contentLength = "large" => rq.bytes = "over"}

\* sceneAssetSchema without its two refinements
SceneSchemaUnrefined(sc) ==
  /\ sc.audio
  /\ sc.durationSeconds > 0

\* sceneAssetSchema: audioBase64 non-empty, durationSeconds positive, and the
\* two refinements on imageBase64 / videoBase64
SceneSchemaOk(sc) ==
  /\ sc.audio
  /\ sc.durationSeconds > 0
  /\ sc.visual # "none"
  /\ sc.visual # "both"

\* assembleVideoBodySchema without the bounds on the length of scenes
SchemaUnbounded(body) ==
  \A j \in 1 .. Len(body.scenes) : SceneSchemaOk(body.scenes[j])

\* assembleVideoBodySchema.safeParse(body).success
SchemaOk(body) ==
  /\ Len(body.scenes) >= 1
  /\ Len(body.scenes) <= MAX_SCENES
  /\ \A j \in 1 .. Len(body.scenes) : SceneSchemaOk(body.scenes[j])

\* the per-scene guard at the head of the render loop
SceneShapeOk(sc) ==
  /\ ~((sc.visual = "none") \/ ~sc.audio \/ sc.durationSeconds <= 0)
  /\ ~(sc.visual = "both")

\* captionTexts[i].length of a scene: normalised narration, '' when absent
CaptionLength(sc) == IF sc.narration = "text" THEN 1 ELSE 0

\* const useCaptions = captions && captionForScene.length > 0
UseCaptions(body, i) == body.captions /\ CaptionLength(body.scenes[i + 1]) > 0

\* vf: the base chain, or the base chain followed by the drawtext filters
FilterChain(body, i) == IF UseCaptions(body, i) THEN "captioned" ELSE "base"

\* tryRunSegment's catch: if (useCaptions && filterChain !== baseVf) retry
NeverRetry(useCaptions, filterChain) == FALSE
RetryWithoutCaptions(useCaptions, filterChain) == useCaptions /\ filterChain # "base"

IdleHandler(rq) ==
  [pc |-> "idle", request |-> rq, tmpDir |-> -1, created |-> FALSE, i |-> 0,
   chain |-> "none", segmentPaths |-> <<>>, durations |-> <<>>, outputSeconds |-> 0,
   log |-> <<>>, manifest |-> <<>>, proc |-> "none",
   status |-> 0, code |-> "none", threw |-> "none"]

\* files of the workspace
AudioFile(i) == <<"scene.audio", i>>
VisualFile(i) == <<"scene.visual", i>>
SegmentFile(i) == <<"segment.mp4", i>>
ListFile == <<"list.txt", 0>>
OutputFile == <<"output.mp4", 0>>

\* fs.mkdirSync(tmpDir, {recursive: true}): no error when the path exists
MkDir(tree, d) == IF tree[d] = Absent THEN [tree EXCEPT ![d] = EmptyDir] ELSE tree

\* fs.writeFileSync(path.join(tmpDir, f), ...)
WriteFiles(tree, d, files) == [tree EXCEPT ![d].files = @ \cup files]

\* The route is invoked: content-length gate, then the workspace is created
\* and the handler awaits request.json().
HandleRequest(h) ==
  /\ hs[h].pc = "idle"
  /\ IF hs[h].request.contentLength = "large"
     THEN /\ hs' = [hs EXCEPT ![h].pc = "done", ![h].status = 413,
                               ![h].code = "BAD_REQUEST"]
          /\ UNCHANGED fs
     ELSE /\ hs' = [hs EXCEPT ![h].pc = "parse", ![h].tmpDir = clock, ![h].created = TRUE]
          /\ fs' = MkDir(fs, clock)
  /\ UNCHANGED clock

\* The head of one loop iteration, up to the await inside tryRunSegment:
\* shape guard, the scene's files are written, ffmpeg is started on vf.
\* Past the last scene: list.txt is written and the concatenation is started.
EnterScene(h, hrec, tree, i) ==
  LET body == hrec.request.body
      n == Len(body.scenes)
      d == hrec.tmpDir
  IN
  IF i >= n
  THEN /\ hs' = [hs EXCEPT ![h] = [hrec EXCEPT !.pc = "concat", !.i = i, !.chain = "none",
                                                 !.manifest = hrec.segmentPaths,
                                                 !.proc = "starting"]]
       /\ fs' = WriteFiles(tree, d, {ListFile})
  ELSE IF ~SceneShapeOk(body.scenes[i + 1])
  THEN /\ hs' = [hs EXCEPT ![h] = [hrec EXCEPT !.pc = "cleanup", !.i = i, !.status = 400,
                                                 !.code = "BAD_REQUEST"]]
       /\ fs' = tree
  ELSE /\ hs' = [hs EXCEPT ![h] = [hrec EXCEPT !.pc = "render", !.i = i,
                                                 !.chain = FilterChain(body, i)]]
       /\ fs' = WriteFiles(tree, d, {AudioFile(i), VisualFile(i)})

\* request.json() settled: a malformed body throws; a body the schema rejects
\* is answered 400; otherwise the render loop is entered.
ParseBody(h) ==
  /\ hs[h].pc = "parse"
  /\ LET body == hs[h].request.body IN
     IF ~body.json
     THEN /\ hs' = [hs EXCEPT ![h].pc = "cleanup", ![h].threw = "SyntaxError"]
          /\ UNCHANGED fs
     ELSE IF ~SchemaOk(body)
     THEN /\ hs' = [hs EXCEPT ![h].pc = "cleanup", ![h].status = 400,
                               ![h].code = "VALIDATION_ERROR"]
          /\ UNCHANGED fs
     ELSE EnterScene(h, hs[h], fs, 0)
  /\ UNCHANGED clock

\* const effectiveDuration = Math.max(durationSeconds, MIN_SCENE_DURATION),
\* in whole seconds
EffectiveSeconds(durationSeconds) ==
  IF durationSeconds >= MIN_SCENE_DURATION THEN durationSeconds ELSE MIN_SCENE_DURATION

\* The length of the segment ffmpeg writes: the visual input loops for ever
\* (-loop 1, -stream_loop -1), -t effectiveDuration cuts the output, and
\* -shortest ends it with the audio stream.
SegmentSeconds(effectiveDuration, audioSeconds) == Min(effectiveDuration, audioSeconds)

\* the length of the concatenation (-f concat, -c copy) of segments
RECURSIVE TotalSeconds(_)
TotalSeconds(ds) == IF ds = <<>> THEN 0 ELSE Head(ds) + TotalSeconds(Tail(ds))

\* segmentPaths.unshift(segmentPath)
Unshift(paths, segmentPath) == <<segmentPath>> \o paths
\* segmentPaths.push(segmentPath)
Push(paths, segmentPath) == Append(paths, segmentPath)

\* ffmpeg ended with success: the segment exists, its path is recorded, and
\* the loop goes on
RenderEnd(h) ==
  /\ hs[h].pc = "render"
  /\ LET i == hs[h].i
         sc == hs[h].request.body.scenes[i + 1]
         e == EffectiveSeconds(sc.durationSeconds)
         hrec == [hs[h] EXCEPT !.segmentPaths = Push(@, i),
                               !.durations = Append(@, SegmentSeconds(e, AudioSeconds(sc))),
                               !.log = Append(@, <<i, hs[h].chain, "end">>)]
     IN EnterScene(h, hrec, WriteFiles(fs, hs[h].tmpDir, {SegmentFile(i)}), i + 1)
  /\ UNCHANGED clock

\* ffmpeg ended with an error: tryRunSegment retries with the base chain when
\* the captioned chain failed, and rethrows otherwise
RenderError(h) ==
  /\ hs[h].pc = "render"
  /\ LET i == hs[h].i
         logged == [hs[h] EXCEPT !.log = Append(@, <<i, hs[h].chain, "error">>)]
     IN
     IF RetryWithoutCaptions(UseCaptions(hs[h].request.body, i), hs[h].chain)
     THEN hs' = [hs EXCEPT ![h] = [logged EXCEPT !.chain = "base"]]
     ELSE hs' = [hs EXCEPT ![h] = [logged EXCEPT !.pc = "cleanup", !.threw = "RenderError"]]
  /\ UNCHANGED <<fs, clock>>

\* the concatenating ffmpeg opens output.mp4 in the workspace (it fails when
\* the workspace is gone)
ConcatOpen(h) ==
  /\ hs[h].proc = "starting"
  /\ IF fs[hs[h].tmpDir] = Absent
     THEN /\ hs' = [hs EXCEPT ![h].proc = "failed"]
          /\ UNCHANGED fs
     ELSE /\ hs' = [hs EXCEPT ![h].proc = "writing"]
          /\ fs' = WriteFiles(fs, hs[h].tmpDir, {OutputFile})
  /\ hs[h].pc \in {"concat", "cleanup", "rmdir", "done"}
  /\ UNCHANGED clock

\* the concatenating ffmpeg ends and the handler answers 200 even after the
\* deadline has expired
ConcatEndLate(h) ==
  /\ hs[h].proc = "writing"
  /\ hs' = [hs EXCEPT ![h].proc = "ended",
                      ![h].outputSeconds = TotalSeconds(hs[h].durations),
                      ![h].pc = IF @ = "concat" THEN "cleanup" ELSE @,
                      ![h].status = 200]
  /\ UNCHANGED <<fs, clock>>

\* the concatenating ffmpeg ends; if withTimeout is still pending the handler
\* reads output.mp4 and answers 200
ConcatEnd(h) ==
  /\ hs[h].proc = "writing"
  /\ hs' = [hs EXCEPT ![h].proc = "ended",
                      ![h].outputSeconds = TotalSeconds(hs[h].durations),
                      ![h].pc = IF @ = "concat" THEN "cleanup" ELSE @,
                      ![h].status = IF hs[h].pc = "concat" THEN 200 ELSE @]
  /\ UNCHANGED <<fs, clock>>

\* the concatenating ffmpeg fails; if withTimeout is still pending it rejects
ConcatError(h) ==
  /\ hs[h].proc \in {"starting", "writing"}
  /\ hs' = [hs EXCEPT ![h].proc = "failed",
                      ![h].pc = IF @ = "concat" THEN "cleanup" ELSE @,
                      ![h].threw = IF hs[h].pc = "concat" THEN "ConcatError" ELSE @]
  /\ UNCHANGED <<fs, clock>>

\* withTimeout's timer fires first: 'Video assembly timed out' is thrown; the
\* ffmpeg process is not stopped
ConcatTimeout(h) ==
  /\ hs[h].pc = "concat"
  /\ hs' = [hs EXCEPT ![h].pc = "cleanup", ![h].threw = "Timeout"]
  /\ UNCHANGED <<fs, clock>>

\* files of the workspace that a live ffmpeg process holds open
HeldOpen(hrec) ==
  IF hrec.proc = "starting" THEN {ListFile}
  ELSE IF hrec.proc = "writing" THEN {ListFile, OutputFile}
  ELSE {}

\* the response of the route: what the handler returned, or withApiHandler's
\* 500 when it threw
Respond(hrec) ==
  [hrec EXCEPT !.pc = "done", !.status = IF hrec.threw # "none" THEN 500 ELSE @,
               !.code = IF hrec.threw # "none" THEN "INTERNAL_ERROR" ELSE @]

\* cleanup(), first half: existsSync, readdirSync, unlinkSync of every entry.
\* Unlinking a file that another process holds open succeeds or throws,
\* depending on the platform; any throw ends cleanup in its catch.
CleanupUnlink(h) ==
  /\ hs[h].pc = "cleanup"
  /\ LET d == hs[h].tmpDir
         held == fs[d].files \cap HeldOpen(hs[h])
     IN
     IF fs[d] = Absent
     THEN /\ hs' = [hs EXCEPT ![h] = Respond(hs[h])]
          /\ UNCHANGED fs
     ELSE \/ /\ fs' = [fs EXCEPT ![d].files = {}]
             /\ hs' = [hs EXCEPT ![h].pc = "rmdir"]
          \/ /\ held # {}
             /\ \/ fs' = [fs EXCEPT ![d].files = held]
                \/ UNCHANGED fs
             /\ hs' = [hs EXCEPT ![h] = Respond(hs[h])]
  /\ UNCHANGED clock

\* cleanup(), second half: rmdirSync, which throws on a directory that is not
\* empty; then the finally block is left and the route responds
CleanupRmdir(h) ==
  /\ hs[h].pc = "rmdir"
  /\ LET d == hs[h].tmpDir IN
     fs' = IF fs[d] = EmptyDir THEN [fs EXCEPT ![d] = Absent] ELSE fs
  /\ hs' = [hs EXCEPT ![h] = Respond(hs[h])]
  /\ UNCHANGED clock

\* a millisecond passes
Tick ==
  /\ clock < MaxTime
  /\ clock' = clock + 1
  /\ UNCHANGED <<hs, fs>>

AssembleIdle ==
  /\ hs = <<>>
  /\ fs = [d \in 0 .. MaxTime |-> Absent]
  /\ clock = 0

(***************************************************************************)
(* Caption text of a scene: normalisation and segmentation                 *)
(* Texts are sequences of characters.                                      *)
(***************************************************************************)
Space == " "
Nul == "nul"
\* the character class [.!?] of the sentence split
SentenceEnd == {".", "!", "?"}

Repeat(c, n) == [j \in 1 .. n |-> c]

\* String.prototype.trim
RECURSIVE TrimStart(_)
TrimStart(t) == IF t # <<>> /\ Head(t) = Space THEN TrimStart(Tail(t)) ELSE t
RECURSIVE TrimEnd(_)
TrimEnd(t) ==
  IF t # <<>> /\ t[Len(t)] = Space THEN TrimEnd(SubSeq(t, 1, Len(t) - 1)) ELSE t
Trim(t) == TrimEnd(TrimStart(t))

\* .replace(/\s+/g, ' '): of every run of whitespace the first blank stays
RECURSIVE CollapseRange(_, _, _)
CollapseRange(t, lo, hi) ==
  IF lo > hi THEN <<>>
  ELSE IF lo = hi
  THEN IF t[lo] = Space /\ lo > 1 /\ t[lo - 1] = Space THEN <<>> ELSE <<t[lo]>>
  ELSE LET mid == (lo + hi) \div 2
       IN CollapseRange(t, lo, mid) \o CollapseRange(t, mid + 1, hi)
CollapseSpaces(t) == CollapseRange(t, 1, Len(t))

\* .replace(/\0/g, '')
RemoveNul(t) == SelectSeq(t, LAMBDA c : c # Nul)

\* .slice(0, n)
Slice(t, n) == SubSeq(t, 1, Min(Len(t), n))

\* captionTexts[i]: the normalised narration, '' when there is none
CaptionText(narration) ==
  IF narration.present
  THEN Slice(RemoveNul(CollapseSpaces(Trim(narration.chars))), MAX_CAPTION_LENGTH)
  ELSE <<>>

\* first index from j on that holds no whitespace
RECURSIVE SkipSpaces(_, _)
SkipSpaces(t, j) == IF j <= Len(t) /\ t[j] = Space THEN SkipSpaces(t, j + 1) ELSE j

\* the least index of hits, or none when there is none
First(hits, none) ==
  IF hits = {} THEN none ELSE CHOOSE p \in hits : \A q \in hits : p <= q

\* captionForScene.split(/(?<=[.!?])\s+/): a separator is a run of whitespace
\* that follows one of . ! ?
RECURSIVE SplitSentencesFrom(_, _)
SplitSentencesFrom(t, j) ==
  LET b == First({p \in j .. Len(t) : t[p] = Space /\ p > 1 /\ t[p - 1] \in SentenceEnd},
                 Len(t) + 1)
  IN IF b > Len(t) THEN <<SubSeq(t, j, Len(t))>>
     ELSE <<SubSeq(t, j, b - 1)>> \o SplitSentencesFrom(t, SkipSpaces(t, b))
SplitSentences(t) == SplitSentencesFrom(t, 1)

\* s.split(' ')
RECURSIVE SplitOnSpaceFrom(_, _)
SplitOnSpaceFrom(t, j) ==
  LET b == First({p \in j .. Len(t) : t[p] = Space}, Len(t) + 1)
  IN IF b > Len(t) THEN <<SubSeq(t, j, Len(t))>>
     ELSE <<SubSeq(t, j, b - 1)>> \o SplitOnSpaceFrom(t, b + 1)
SplitOnSpace(t) == SplitOnSpaceFrom(t, 1)

\* the word loop: words are packed into currentChunk while it stays within
\* maxCharsPerSegment; a word that does not fit closes the chunk and opens
\* the next one
RECURSIVE PackWords(_, _, _)
PackWords(words, currentChunk, segments) ==
  IF words = <<>>
  THEN IF currentChunk # <<>> THEN Append(segments, Trim(currentChunk)) ELSE segments
  ELSE LET word == Head(words) IN
       IF Len(currentChunk) + Len(word) + 1 <= maxCharsPerSegment
       THEN PackWords(Tail(words),
                      IF currentChunk # <<>> THEN currentChunk \o <<Space>> \o word ELSE word,
                      segments)
       ELSE PackWords(Tail(words), word,
                      IF currentChunk # <<>> THEN Append(segments, Trim(currentChunk))
                      ELSE segments)

\* for (const sentence of sentences): short sentences are segments, long ones
\* are split at word boundaries
RECURSIVE SegmentSentences(_, _)
SegmentSentences(sentences, segments) ==
  IF sentences = <<>> THEN segments
  ELSE LET sentence == Head(sentences) IN
       SegmentSentences(Tail(sentences),
         IF Len(sentence) <= maxCharsPerSegment
         THEN Append(segments, Trim(sentence))
         ELSE PackWords(SplitOnSpace(sentence), <<>>, segments))

\* the segments of a caption text
Segments(captionForScene) ==
  LET sentences == SelectSeq(SplitSentences(captionForScene),
                             LAMBDA s : Len(Trim(s)) > 0)
      segments == SegmentSentences(sentences, <<>>)
  IN IF Len(segments) = 0
     THEN PackWords(SplitOnSpace(captionForScene), <<>>, <<>>)
     ELSE segments

\* wordCounts[idx] = segments[idx].split(' ').length
WordCount(segment) == Len(SplitOnSpace(segment))

(***************************************************************************)
(* JavaScript numbers: IEEE 754 binary64, round to nearest, ties to even.  *)
(* A natural number is a sequence of bits, least significant first; a      *)
(* positive double is [m, e] with m of Precision bits, the highest one     *)
(* set, and value m * 2^e.                                                 *)
(***************************************************************************)
\* bits of the significand of a double
Precision == 53

Zero == [m |-> <<>>, e |-> 0]

RECURSIVE NatBits(_)
NatBits(n) == IF n = 0 THEN <<>> ELSE <<n % 2>> \o NatBits(n \div 2)

RECURSIVE BitsNat(_)
BitsNat(b) == IF b = <<>> THEN 0 ELSE Head(b) + 2 * BitsNat(Tail(b))

\* the bits without leading (most significant) zeros
RECURSIVE StripBits(_)
StripBits(b) ==
  IF b # <<>> /\ b[Len(b)] = 0 THEN StripBits(SubSeq(b, 1, Len(b) - 1)) ELSE b

RECURSIVE AddBits(_, _, _)
AddBits(a, b, carry) ==
  IF a = <<>> /\ b = <<>> THEN (IF carry = 0 THEN <<>> ELSE <<carry>>)
  ELSE LET x == IF a = <<>> THEN 0 ELSE Head(a)
           y == IF b = <<>> THEN 0 ELSE Head(b)
           t == x + y + carry
       IN <<t % 2>> \o AddBits(IF a = <<>> THEN <<>> ELSE Tail(a),
                               IF b = <<>> THEN <<>> ELSE Tail(b), t \div 2)

\* a times a small natural k
RECURSIVE MulSmall(_, _, _)
MulSmall(a, k, carry) ==
  IF a = <<>> THEN NatBits(carry)
  ELSE LET t == Head(a) * k + carry
       IN <<t % 2>> \o MulSmall(Tail(a), k, t \div 2)

RECURSIVE MulBits(_, _)
MulBits(a, b) ==
  IF b = <<>> THEN <<>>
  ELSE IF Head(b) = 1 THEN AddBits(a, <<0>> \o MulBits(a, Tail(b)), 0)
  ELSE <<0>> \o MulBits(a, Tail(b))

\* number of zero bits below the lowest set bit of a natural b # 0
LowZeros(b) == (CHOOSE p \in 1 .. Len(b) : b[p] = 1 /\ \A q \in 1 .. (p - 1) : b[q] = 0) - 1

\* a <= b for naturals without leading zeros
RECURSIVE LeqFromTop(_, _, _)
LeqFromTop(a, b, j) ==
  IF j = 0 THEN TRUE
  ELSE IF a[j] # b[j] THEN a[j] < b[j]
  ELSE LeqFromTop(a, b, j - 1)
NatLeq(a, b) ==
  IF Len(a) # Len(b) THEN Len(a) < Len(b) ELSE LeqFromTop(a, b, Len(a))

\* the double nearest to a * 2^e (a without leading zeros); sticky tells that
\* the exact value lies strictly above a * 2^e and below (a + 1) * 2^e
RoundToDouble(a, e, sticky) ==
  LET L == Len(a) IN
  IF L = 0 THEN Zero
  ELSE IF L <= Precision
  THEN [m |-> Repeat(0, Precision - L) \o a, e |-> e - (Precision - L)]
  ELSE LET drop == L - Precision
           guard == a[drop]
           rest == sticky \/ \E j \in 1 .. (drop - 1) : a[j] = 1
           kept == SubSeq(a, drop + 1, L)
           up == guard = 1 /\ (rest \/ kept[1] = 1)
           r == IF up THEN AddBits(kept, <<1>>, 0) ELSE kept
       IN IF Len(r) > Precision
          THEN [m |-> SubSeq(r, 2, Len(r)), e |-> e + drop + 1]
          ELSE [m |-> r, e |-> e + drop]

\* the double of a natural number n, and of n / 8
FromInt(n) == RoundToDouble(NatBits(n), 0, FALSE)
FromEighths(n) == RoundToDouble(NatBits(n), -3, FALSE)

\* long division r / T: quotient bits until Precision + 1 significant ones
RECURSIVE DivBits(_, _, _, _)
DivBits(r, T, acc, s) ==
  IF Len(acc) >= Precision + 1 THEN [bits |-> acc, scale |-> s, sticky |-> r # 0]
  ELSE LET bit == (2 * r) \div T
       IN DivBits((2 * r) % T, T,
                  IF acc = <<>> /\ bit = 0 THEN <<>> ELSE <<bit>> \o acc, s + 1)

\* w / T for naturals w >= 1, T >= 1
FDiv(w, T) ==
  LET q == DivBits(w % T, T, NatBits(w \div T), 0)
  IN RoundToDouble(q.bits, -q.scale, q.sticky)

\* x * y
FMul(x, y) ==
  IF x = Zero \/ y = Zero THEN Zero
  ELSE LET z == LowZeros(x.m)
       IN RoundToDouble(StripBits(MulBits(y.m, SubSeq(x.m, z + 1, Len(x.m)))),
                        x.e + y.e + z, FALSE)

\* x + y
FAdd(x, y) ==
  IF x = Zero THEN y
  ELSE IF y = Zero THEN x
  ELSE LET e == Min(x.e, y.e)
           a == Repeat(0, x.e - e) \o x.m
           b == Repeat(0, y.e - e) \o y.m
       IN RoundToDouble(StripBits(AddBits(a, b, 0)), e, FALSE)

\* x <= y
FLeq(x, y) ==
  IF x = Zero THEN TRUE
  ELSE IF y = Zero THEN FALSE
  ELSE IF x.e # y.e THEN x.e < y.e
  ELSE NatLeq(x.m, y.m)

\* Math.max(x, y)
FMax(x, y) == IF FLeq(x, y) THEN y ELSE x

\* x.toFixed(2), as the number of hundredths it prints: the integer n with
\* n / 100 nearest to x, the larger one of two
ToFixed2(x) ==
  IF x = Zero THEN 0
  ELSE LET X == MulSmall(x.m, 100, 0)
           f == 0 - x.e
       IN IF f <= 0 THEN BitsNat(Repeat(0, 0 - f) \o X)
          ELSE IF f > Len(X) THEN 0
          ELSE BitsNat(SubSeq(X, f + 1, Len(X))) + X[f]

(***************************************************************************)
(* The caption computation of one scene of the render loop                 *)
(***************************************************************************)
\* narrations: sentences of equal words, joined by whitespace
Word(len) == Repeat("a", len)

\* Array.prototype.join
RECURSIVE Join(_, _)
Join(parts, sep) ==
  IF parts = <<>> THEN <<>>
  ELSE IF Len(parts) = 1 THEN parts[1]
  ELSE parts[1] \o sep \o Join(Tail(parts), sep)

SentenceOf(words, len, punct) ==
  Join([j \in 1 .. words |-> Word(len)], <<Space>>) \o (IF punct THEN <<".">> ELSE <<>>)

\* padded: surrounded by whitespace, sentences two blanks apart, a NUL at the end
NarrationOf(counts, len, punct, padded) ==
  LET body == Join([j \in 1 .. Len(counts) |-> SentenceOf(counts[j], len, punct)],
                   IF padded THEN <<Space, Space>> ELSE <<Space>>)
  IN IF padded THEN <<Space>> \o body \o <<Space, Nul>> ELSE body

\* the narration field of a scene: absent, or a string
Narrations ==
  {[present |-> FALSE, chars |-> <<>>], [present |-> TRUE, chars |-> <<Nul, Space, Nul>>]}
  \cup
  {[present |-> TRUE, chars |-> NarrationOf(c, l, p, d)] :
     c \in SeqsUpTo(SentenceWords, MaxSentences) \ {<<>>},
     l \in WordLens, p \in BOOLEAN, d \in BOOLEAN}

\* the durationSeconds field of a scene
Durations == {FromEighths(n) : n \in DurationsInEighths}

IdleCaption ==
  [pc |-> "idle", captions |-> FALSE, narration |-> [present |-> FALSE, chars |-> <<>>],
   durationSeconds |-> Zero, text |-> <<>>, useCaptions |-> FALSE,
   effectiveDuration |-> Zero, segments |-> <<>>, wordCounts |-> <<>>,
   timings |-> <<>>, windows |-> <<>>]

CaptionIdle == cap = IdleCaption

\* Math.max(durationSeconds, MIN_SCENE_DURATION)
EffectiveDuration(durationSeconds) == FMax(durationSeconds, FromInt(MIN_SCENE_DURATION))

\* captionTexts[i], effectiveDuration and useCaptions of the scene
NormaliseCaption ==
  /\ cap.pc = "scene"
  /\ LET text == CaptionText(cap.narration)
         useCaptions == cap.captions /\ Len(text) > 0
     IN cap' = [cap EXCEPT !.text = text,
                           !.useCaptions = useCaptions,
                           !.effectiveDuration = EffectiveDuration(cap.durationSeconds),
                           !.pc = IF useCaptions THEN "split" ELSE "base"]

\* if (useCaptions): the text is split into segments
SplitSegments ==
  /\ cap.pc = "split"
  /\ cap' = [cap EXCEPT !.segments = Segments(cap.text), !.pc = "timing"]

RECURSIVE Sum(_)
Sum(ns) == IF ns = <<>> THEN 0 ELSE Head(ns) + Sum(Tail(ns))

\* segmentProportion = wordCounts[idx] / totalWords
EqualShare(w, T) == FDiv(1, T)
SegmentProportion(w, T) == FDiv(w, T)

\* currentTime += segmentDuration
StuckTime(currentTime, segmentDuration) == currentTime
NextTime(currentTime, segmentDuration) == FAdd(currentTime, segmentDuration)

\* the timing loop: one {start, end} per segment (segmentDuration is kept
\* along with them)
RECURSIVE TimingsFrom(_, _, _, _, _)
TimingsFrom(wordCounts, totalWords, effectiveDuration, idx, currentTime) ==
  IF idx > Len(wordCounts) THEN <<>>
  ELSE LET segmentProportion == SegmentProportion(wordCounts[idx], totalWords)
           segmentDuration == FMul(effectiveDuration, segmentProportion)
       IN <<[start |-> currentTime,
             end |-> FAdd(currentTime, segmentDuration),
             segmentDuration |-> segmentDuration]>>
          \o TimingsFrom(wordCounts, totalWords, effectiveDuration, idx + 1,
                         NextTime(currentTime, segmentDuration))

\* wordCounts, totalWords and segmentTimings
ComputeTimings ==
  /\ cap.pc = "timing"
  /\ LET wordCounts == [k \in 1 .. Len(cap.segments) |-> WordCount(cap.segments[k])]
     IN cap' = [cap EXCEPT !.wordCounts = wordCounts,
                           !.timings = TimingsFrom(wordCounts, Sum(wordCounts),
                                                   cap.effectiveDuration, 1, Zero),
                           !.pc = "filters"]

\* drawFilters: the enable window of each segment, printed with toFixed(2)
BuildFilters ==
  /\ cap.pc = "filters"
  /\ cap' = [cap EXCEPT !.windows = [k \in 1 .. Len(cap.timings) |->
                                       [start |-> ToFixed2(cap.timings[k].start),
                                        end |-> ToFixed2(cap.timings[k].end)]],
                        !.pc = "captioned"]


(***************************************************************************)
(* Time: Date.now() and the timers of setTimeout                           *)
(***************************************************************************)
\* Time passes: by one unit while the clock is small, or up to the instant an
\* armed timer is due (a timer never fires before it is due; it may fire late)
AdvanceTime(dues) ==
  /\ now' \in {t \in dues \cup {now + 1} : t > now /\ (t \in dues \/ t <= MaxNow)}

(***************************************************************************)
(* withRetry (lib/retry.ts) wrapped by withTimeout (lib/timeout.ts), as the *)
(* providers call them: withTimeout(withRetry(fn, options), ms)            *)
(***************************************************************************)
\* an option that may be left out: [has, v]
NoOption == [has |-> FALSE, v |-> 0]
Option(v) == [has |-> TRUE, v |-> v]
\* options.x ?? d
OrDefault(opt, d) == IF opt.has THEN opt.v ELSE d

\* tw.at is the instant at which the promise of withTimeout settled;
\* rt.starts and rt.fails are the instants at which fn was called and at which
\* a call of fn rejected, in order
\* the error object the k-th call of fn rejects with (a fresh object per call)
ErrorOf(k) == <<"error1", "error2", "error3", "error4", "error5">>[k]

IdleRetry ==
  [pc |-> "idle", attempts |-> 0, initialMs |-> 0, i |-> 0, calls |-> 0, log |-> <<>>,
   lastErr |-> "undefined", value |-> "none", err |-> "none", wakeAt |-> 0,
   delays |-> <<>>, starts |-> <<>>, fails |-> <<>>]

IdleTimeout ==
  [pc |-> "idle", ms |-> 0, due |-> 0, timer |-> "none", value |-> "none",
   err |-> "none", events |-> <<>>, at |-> 0]

RetryIdle == rt = IdleRetry /\ tw = IdleTimeout

\* for (let i = 0; i < attempts; i++)
LoopTest(i, attempts) == i < attempts

\* if (i === attempts - 1) throw err: gives up one attempt too early
GiveUpEarly(i, attempts) == i >= attempts - 2
\* if (i === attempts - 1) throw err
LastAttempt(i, attempts) == i = attempts - 1

\* const delay = initialMs: the same wait after every failure
DelayConstant(initialMs, i) == initialMs
\* const delay = initialMs * Math.pow(2, i)
Delay(initialMs, i) == initialMs * (2 ^ i)

\* the loop arrives at its test with counter i: another call of fn, or the
\* throw lastErr after the loop
EnterAttempt(r, i) ==
  IF LoopTest(i, r.attempts)
  THEN [r EXCEPT !.pc = "calling", !.i = i, !.calls = r.calls + 1,
                 !.starts = Append(r.starts, now)]
  ELSE [r EXCEPT !.pc = "rejected", !.i = i, !.err = r.lastErr]

\* an attempt succeeded but the loop goes on as after a failure
OnSuccessRetry(r, v) ==
  [r EXCEPT !.pc = "waiting", !.log = Append(r.log, v),
            !.wakeAt = now + Delay(r.initialMs, r.i)]
\* return await fn(): fn resolved with v
OnSuccess(r, v) ==
  [r EXCEPT !.pc = "resolved", !.log = Append(r.log, v), !.value = v]

\* catch (err): rethrow after the last attempt, otherwise arm the backoff timer
OnFailure(r, e) ==
  IF LastAttempt(r.i, r.attempts)
  THEN [r EXCEPT !.pc = "rejected", !.log = Append(r.log, e), !.lastErr = e, !.err = e,
                 !.fails = Append(r.fails, now)]
  ELSE [r EXCEPT !.pc = "waiting", !.log = Append(r.log, e), !.lastErr = e,
                 !.fails = Append(r.fails, now),
                 !.wakeAt = now + Delay(r.initialMs, r.i),
                 !.delays = Append(r.delays, Delay(r.initialMs, r.i))]

\* resolve(value) and reject(err) of the new Promise overwrite a settled promise
SettleAgain(t, pc, value, err, event) ==
  [t EXCEPT !.pc = pc, !.value = value, !.err = err, !.events = Append(t.events, event),
            !.at = now]
\* resolve(value) and reject(err) of the new Promise: only the first call
\* settles it
Settle(t, pc, value, err, event) ==
  IF t.pc = "pending"
  THEN [t EXCEPT !.pc = pc, !.value = value, !.err = err,
                 !.events = Append(t.events, event), !.at = now]
  ELSE [t EXCEPT !.events = Append(t.events, event)]

\* the reactions of withTimeout to the wrapped promise r: they run as
\* microtasks right after it settles, before any timer
Reactions(t, r) ==
  IF t.pc = "idle" THEN t
  ELSE IF r.pc = "resolved"
  THEN Settle([t EXCEPT !.timer = IF t.timer = "armed" THEN "cleared" ELSE t.timer],
              "resolved", r.value, "none", "value")
  ELSE IF r.pc = "rejected"
  THEN Settle([t EXCEPT !.timer = IF t.timer = "armed" THEN "cleared" ELSE t.timer],
              "rejected", "none", r.err, "error")
  ELSE t

TimeoutMessage == "Request timed out"

\* withTimeout(withRetry(fn, options), ms): withRetry runs up to its first
\* await (the first call of fn, or the throw after an empty loop), then
\* withTimeout arms its timer and subscribes to the promise
WithRetryCall(attempts, initialMs, ms) ==
  /\ rt.pc = "idle"
  /\ LET r == EnterAttempt([rt EXCEPT !.attempts = OrDefault(attempts, DEFAULT_ATTEMPTS),
                                      !.initialMs = OrDefault(initialMs, INITIAL_MS)], 0)
         t == [tw EXCEPT !.pc = "pending", !.ms = ms, !.due = now + ms, !.timer = "armed"]
     IN /\ rt' = r
        /\ tw' = Reactions(t, r)
  /\ UNCHANGED now

\* the promise returned by fn() resolves
RetryFnResolve(v) ==
  /\ rt.pc = "calling"
  /\ rt' = OnSuccess(rt, v)
  /\ tw' = Reactions(tw, rt')
  /\ UNCHANGED now

\* the promise returned by fn() rejects
RetryFnReject ==
  /\ rt.pc = "calling"
  /\ rt' = OnFailure(rt, ErrorOf(rt.calls))
  /\ tw' = Reactions(tw, rt')
  /\ UNCHANGED now

\* the backoff timer fires: i++ and the loop test
BackoffFire ==
  /\ rt.pc = "waiting"
  /\ now >= rt.wakeAt
  /\ rt' = EnterAttempt(rt, rt.i + 1)
  /\ tw' = Reactions(tw, rt')
  /\ UNCHANGED now

\* the timer of withTimeout fires: reject(new Error(message)), and the wrapped
\* operation is stopped
TimeoutFireCancels ==
  /\ tw.timer = "armed"
  /\ now >= tw.due
  /\ tw' = Settle([tw EXCEPT !.timer = "fired"], "rejected", "none", TimeoutMessage,
                  "deadline")
  /\ rt' = [rt EXCEPT !.pc = "rejected", !.err = TimeoutMessage]
  /\ UNCHANGED now

\* the timer of withTimeout fires: reject(new Error(message))
TimeoutFire ==
  /\ tw.timer = "armed"
  /\ now >= tw.due
  /\ tw' = Settle([tw EXCEPT !.timer = "fired"], "rejected", "none", TimeoutMessage,
                  "deadline")
  /\ UNCHANGED <<rt, now>>

RetryTimers ==
  (IF rt.pc = "waiting" THEN {rt.wakeAt} ELSE {})
    \cup (IF tw.timer = "armed" THEN {tw.due} ELSE {})

RetryTick ==
  /\ rt.pc \in {"calling", "waiting"} \/ tw.timer = "armed"
  /\ AdvanceTime(RetryTimers)
  /\ UNCHANGED <<rt, tw>>

(***************************************************************************)
(* withReplicateThrottle (lib/replicate-throttle.ts)                       *)
(***************************************************************************)
\* thr.lastCallTime is the module variable; thr.calls lists the calls in the
\* order they were made, and pending is the gate promise of the last of them.
\* A call is "queued" (its gate callback has not run), "sleeping" (the
\* callback awaits its timer), "ready" (its gate promise is resolved, the
\* call has not resumed from await pending) or "fired" (fn was invoked).
\* thr.fired lists the calls in the order in which they invoked fn.
IdleThrottle == [lastCallTime |-> 0, calls |-> <<>>, fired |-> <<>>]

ThrottleIdle == thr = IdleThrottle

\* withReplicateThrottle(fn, options) is called: pending = pending.then(gate)
\* and await pending, both before anything else runs
ThrottleCall(ms) ==
  /\ Len(thr.calls) < MaxCalls
  /\ thr' = [thr EXCEPT !.calls = Append(thr.calls,
                [pc |-> "queued", ms |-> OrDefault(ms, REPLICATE_THROTTLE_MS), due |-> 0,
                 firedAt |-> 0, fn |-> "pending", result |-> "pending"])]
  /\ UNCHANGED now

\* pending = pending.then(gate).then(() => fn()): the gate of a call waits for
\* the fn of the call before it to resolve
GateOpenAfterFn(calls, c) ==
  IF c = 1 THEN TRUE
  ELSE calls[c - 1].pc = "fired" /\ calls[c - 1].fn \notin {"pending"} \cup {ErrorOf(k) : k \in 1 .. 5}
\* pending = Promise.resolve().then(gate): the gate of a call is not chained
\* to the gate of the call before it
GateOpenUnchained(calls, c) == TRUE
\* the gate of a call may run although the call before it has not resumed
GateOpenEarly(calls, c) == IF c = 1 THEN TRUE ELSE calls[c - 1].pc \in {"ready", "fired"}
\* The gate of call c is a reaction of the gate promise of call c - 1. The
\* call c - 1 subscribed to that promise first (await pending, in the same
\* synchronous run that created it), so it has resumed and set lastCallTime
\* before the gate of c runs.
GateOpen(calls, c) == IF c = 1 THEN TRUE ELSE calls[c - 1].pc = "fired"

\* the gate callback of call c runs: sleep for what is left of the spacing
GateRun(c) ==
  /\ c \in DOMAIN thr.calls
  /\ thr.calls[c].pc = "queued"
  /\ GateOpen(thr.calls, c)
  /\ LET ms == thr.calls[c].ms
         elapsed == now - thr.lastCallTime
     IN thr' = IF elapsed < ms /\ thr.lastCallTime > 0
               THEN [thr EXCEPT !.calls[c].pc = "sleeping",
                                !.calls[c].due = now + (ms - elapsed)]
               ELSE [thr EXCEPT !.calls[c].pc = "ready"]
  /\ UNCHANGED now

\* the timer of the gate of call c fires: its gate promise resolves
GateTimerFire(c) ==
  /\ c \in DOMAIN thr.calls
  /\ thr.calls[c].pc = "sleeping"
  /\ now >= thr.calls[c].due
  /\ thr' = [thr EXCEPT !.calls[c].pc = "ready"]
  /\ UNCHANGED now

\* call c resumes from await pending: lastCallTime = Date.now(); return fn()
ThrottleFire(c) ==
  /\ c \in DOMAIN thr.calls
  /\ thr.calls[c].pc = "ready"
  /\ thr' = [thr EXCEPT !.lastCallTime = now, !.calls[c].pc = "fired",
                        !.calls[c].firedAt = now, !.fired = Append(@, c)]
  /\ UNCHANGED now

\* the value the fn of call c resolves with
FnValueOf(c) == <<"value1", "value2", "value3", "value4", "value5">>[c]

\* The promise fn returned to call c settles with outcome; return fn() makes
\* the promise of the call follow it (in microtasks, before anything else
\* runs).
ThrottledFnSettle(c, outcome) ==
  /\ c \in DOMAIN thr.calls
  /\ thr.calls[c].pc = "fired"
  /\ thr.calls[c].fn = "pending"
  /\ thr' = [thr EXCEPT !.calls[c].fn = outcome, !.calls[c].result = outcome]
  /\ UNCHANGED now

ThrottleTimers == {thr.calls[c].due : c \in {d \in DOMAIN thr.calls : thr.calls[d].pc = "sleeping"}}

\* Time passes. A call that is ready resumes in a microtask, so no time
\* passes while one is.
ThrottleTick ==
  /\ \A c \in DOMAIN thr.calls : thr.calls[c].pc # "ready"
  /\ AdvanceTime(ThrottleTimers)
  /\ UNCHANGED thr

(***************************************************************************)
(* regenerateScene and cancelRegenerateScene (useVideoGeneration.ts)       *)
(***************************************************************************)
\* Arrays are objects: rg.heap maps an array to its contents, and the assets
\* state, currentAssets and newAssets hold references ("A0" is the array the
\* caller passes, "A1" the next array to be allocated).
IdleRegen ==
  [pc |-> "idle", sceneIndex |-> 0, currentAssets |-> "A0", previousBlobUrl |-> "null",
   newAssets |-> "none", result |-> "none", abortRef |-> "null", aborted |-> FALSE,
   regeneratingSceneIndex |-> NoOption, heap |-> [a \in {"A0", "A1"} |-> <<>>],
   revoked |-> {}, cancels |-> {}]

RegenIdle == rg = IdleRegen

\* the SceneAssets object generateSceneAsset(scene, sceneIndex) resolves with
\* during a regeneration (a new object)
RegeneratedAsset(i) == <<"regen0", "regen1", "regen2", "regen3", "regen4">>[i + 1]

\* const newAssets = currentAssets: the same array
Alias(ref) == ref
\* const newAssets = [...currentAssets]: a new array
Spread(ref) == "A1"

\* the fields of the object generateSceneAsset(scene, sceneIndex, {useVideo})
\* returns, as far as the hook and the route look at them: its sceneIndex and
\* whether it has imageBase64 / videoBase64
SceneAssetFields(sceneIndex, useVideo) ==
  [sceneIndex |-> sceneIndex, imageBase64 |-> ~useVideo, videoBase64 |-> useVideo]

\* the sceneIndex argument of the generateSceneAsset call that returned asset
SceneIndexOf(asset) ==
  CHOOSE i \in 0 .. 5 : asset = Asset(i) \/ (i <= 4 /\ asset = RegeneratedAsset(i))

\* newAssets.push(asset): the new asset goes to the end of the copy
StoreAtEnd(arr, k, v) == Append(arr, v)
\* arr[k] = v on a JavaScript array: a store past the end extends the array
StoreAt(arr, k, v) ==
  [j \in 1 .. (IF k + 1 > Len(arr) THEN k + 1 ELSE Len(arr)) |->
     IF j = k + 1 THEN v ELSE IF j <= Len(arr) THEN arr[j] ELSE Hole]

\* regenerateScene(sceneIndex, scene, currentAssets, ..., previousBlobUrl) is
\* called: new AbortController, setRegeneratingSceneIndex, fetchProviderConfig
RegenerateSceneCall(k, prev) ==
  /\ rg.pc = "idle"
  /\ k < Len(rg.heap[rg.currentAssets])
  /\ rg' = [rg EXCEPT !.pc = "config", !.sceneIndex = k, !.previousBlobUrl = prev,
                      !.abortRef = "controller", !.aborted = FALSE,
                      !.regeneratingSceneIndex = Option(k)]
  /\ UNCHANGED <<assets, videoBlobUrl, totalCost>>

\* fetchProviderConfig resolved: setProgress, generateSceneAsset is called
RegenConfigDone ==
  /\ rg.pc = "config"
  /\ rg' = [rg EXCEPT !.pc = "generating"]
  /\ UNCHANGED <<assets, videoBlobUrl, totalCost>>

\* fetchProviderConfig rejected: the await is outside the try, so the call
\* rejects and the finally block does not run
RegenConfigThrow ==
  /\ rg.pc = "config"
  /\ rg' = [rg EXCEPT !.pc = "threw"]
  /\ UNCHANGED <<assets, videoBlobUrl, totalCost>>

\* the catch block
RegenOutcome(e) == IF e = "AbortError" THEN "cancelled" ELSE "failed"

\* the finally block
RegenFinally(r) ==
  [r EXCEPT !.pc = "returned", !.abortRef = "null", !.regeneratingSceneIndex = NoOption]

\* generateSceneAsset resolved: addCost, copy the array, store the new asset,
\* call assembleVideo(newAssets, ...)
RegenAssetReady ==
  /\ rg.pc = "generating"
  /\ LET new == Spread(rg.currentAssets) IN
     rg' = [rg EXCEPT !.pc = "assembling", !.newAssets = new,
                      !.heap[new] = StoreAt(rg.heap[rg.currentAssets], rg.sceneIndex,
                                            RegeneratedAsset(rg.sceneIndex))]
  /\ totalCost' = totalCost + SceneCostCents
  /\ UNCHANGED <<assets, videoBlobUrl>>

\* generateSceneAsset rejected with e (AbortError only once the signal is
\* aborted): catch, finally
RegenAssetFailed(e) ==
  /\ rg.pc = "generating"
  /\ e = "AbortError" => rg.aborted
  /\ rg' = RegenFinally([rg EXCEPT !.result = RegenOutcome(e)])
  /\ UNCHANGED <<assets, videoBlobUrl, totalCost>>

\* the previous URL is revoked however assembleVideo settles
RevokeAlways(revoked, previousBlobUrl, outcome) ==
  IF previousBlobUrl # "null" THEN revoked \cup {previousBlobUrl} ELSE revoked
\* if (previousBlobUrl) URL.revokeObjectURL(previousBlobUrl), after the await
\* of assembleVideo: reached only if it resolved
RevokeAfter(revoked, previousBlobUrl, outcome) ==
  IF outcome = "ok" /\ previousBlobUrl # "null"
  THEN revoked \cup {previousBlobUrl}
  ELSE revoked

\* assembleVideo settles: with a blob ("ok": revoke, setVideoBlobUrl,
\* setAssets, return {ok: true}) or with an error (catch); finally
RegenAssembleSettle(outcome) ==
  /\ rg.pc = "assembling"
  /\ outcome = "ok" => ~rg.aborted
  /\ outcome = "AbortError" => rg.aborted
  /\ rg' = RegenFinally([rg EXCEPT
             !.result = IF outcome = "ok" THEN "ok" ELSE RegenOutcome(outcome),
             !.revoked = RevokeAfter(rg.revoked, rg.previousBlobUrl, outcome)])
  /\ IF outcome = "ok"
     THEN /\ videoBlobUrl' = "regenUrl"
          /\ assets' = rg.newAssets
     ELSE UNCHANGED <<assets, videoBlobUrl>>
  /\ UNCHANGED totalCost

\* cancelRegenerateScene(): abort the controller of the regeneration in flight
CancelRegenerateScene ==
  /\ rg.abortRef # "null"
  /\ ~rg.aborted
  /\ rg' = [rg EXCEPT !.aborted = TRUE]
  /\ UNCHANGED <<assets, videoBlobUrl, totalCost>>

\* the ref whose controller both cancel functions abort
SharedRef(fn) == "abortControllerRef"
\* the ref whose controller a cancel function of the hook aborts
CancelRef(fn) ==
  IF fn = "cancelVideoGeneration" THEN "abortControllerRef" ELSE "regenerateAbortRef"

\* cancelVideoGeneration() or cancelRegenerateScene() is called while a batch
\* and a regeneration may both be in flight: if (ref.current) ref.current.abort().
\* rg.cancels is the history of the functions that were called.
CancelCall(fn) ==
  /\ IF CancelRef(fn) = "abortControllerRef"
     THEN /\ abortRef # "null" /\ ~aborted
          /\ aborted' = TRUE
          /\ rg' = [rg EXCEPT !.cancels = @ \cup {fn}]
     ELSE /\ rg.abortRef # "null" /\ ~rg.aborted
          /\ rg' = [rg EXCEPT !.aborted = TRUE, !.cancels = @ \cup {fn}]
          /\ UNCHANGED aborted
  /\ UNCHANGED poolVars
  /\ UNCHANGED <<cv, cvResult, abortRef, req, scenePc, assets, videoBlobUrl, totalCost,
                 completed, genuineFailure>>

(***************************************************************************)
(* fetchWithRetry(url, options, retries) on its own (lib/api-client.ts)    *)
(***************************************************************************)
\* fw.log lists the outcomes of the fetch calls that have settled: the kind of
\* response ("ok", "5xx", "4xx") or the name of the error; fw.lastRes is the
\* variable lastRes ("null" or the kind of response it holds); fw.aborted is
\* options.signal.aborted.
IdleFetch ==
  [pc |-> "idle", retries |-> 0, i |-> 0, calls |-> 0, log |-> <<>>, lastRes |-> "null",
   result |-> "none", err |-> "none", aborted |-> FALSE]

FetchIdle == fw = IdleFetch

\* for (let i = 0; i <= retries; i++): the loop test with counter i, then
\* fetch(url, options), or return lastRes! after the loop
FetchLoop(f, i) ==
  IF i <= f.retries
  THEN [f EXCEPT !.pc = "fetch", !.i = i, !.calls = f.calls + 1]
  ELSE [f EXCEPT !.pc = "returned", !.i = i, !.result = f.lastRes]

\* if (res.status >= 500): a 5xx response is retried whatever the counter
RetryOn5xxAlways(i, retries) == TRUE
\* if (res.status >= 500 && i < retries)
RetryOn5xx(i, retries) == i < retries

\* fetchWithRetry(url, options, retries) is called
FetchWithRetryCall(retries) ==
  /\ fw.pc = "idle"
  /\ fw' = FetchLoop([fw EXCEPT !.retries = OrDefault(retries, DEFAULT_RETRIES)], 0)

\* fetch resolved with a response of the given kind
FetchResponse(kind) ==
  /\ fw.pc = "fetch"
  /\ ~fw.aborted
  /\ LET f == [fw EXCEPT !.log = Append(fw.log, kind), !.lastRes = kind] IN
     fw' = IF kind = "ok" THEN [f EXCEPT !.pc = "returned", !.result = kind]
           ELSE IF kind = "5xx" /\ RetryOn5xx(f.i, f.retries) THEN [f EXCEPT !.pc = "backoff"]
           ELSE [f EXCEPT !.pc = "returned", !.result = kind]

\* fetch rejected: with AbortError when the signal is aborted, else with a
\* network error (TypeError)
FetchRejection ==
  /\ fw.pc = "fetch"
  /\ LET e == IF fw.aborted THEN "AbortError" ELSE "TypeError"
         f == [fw EXCEPT !.log = Append(fw.log, e)]
     IN
     fw' = IF e = "AbortError" THEN [f EXCEPT !.pc = "threw", !.err = e]
           ELSE IF f.i = f.retries THEN [f EXCEPT !.pc = "threw", !.err = e]
           ELSE [f EXCEPT !.pc = "backoff"]

\* the backoff timer fires: continue / i++
FetchBackoffFire ==
  /\ fw.pc = "backoff"
  /\ fw' = FetchLoop(fw, fw.i + 1)

\* the caller aborts the signal it passed in options
FetchSignalAbort ==
  /\ fw.pc \in {"fetch", "backoff"}
  /\ ~fw.aborted
  /\ fw' = [fw EXCEPT !.aborted = TRUE]

(***************************************************************************)
(* The in-memory rate limiter under withApiHandler (lib/rate-limit.ts,     *)
(* lib/with-api-handler.ts); Redis is not configured                       *)
(***************************************************************************)
\* client keys (getClientIp)
RateKeys == {"ip1", "ip2"}

\* memoryStore.get(key) === undefined
NoEntry == [has |-> FALSE, count |-> 0, resetAt |-> 0]

\* rl.store is memoryStore. rl.window[key] is the history of the window the
\* store holds for the key: its resetAt, the instant of the request that
\* opened it, how many requests were handed to the route handler and whether
\* one was answered 429 in it, its number, and of the window before it the
\* resetAt and whether a request was answered 429 in it.
NoWindow ==
  [n |-> 0, resetAt |-> 0, start |-> 0, invoked |-> 0, limited |-> FALSE,
   prevResetAt |-> 0, prevLimited |-> FALSE]

IdleRate ==
  [store |-> [k \in RateKeys |-> NoEntry], window |-> [k \in RateKeys |-> NoWindow]]

RateIdle == rl = IdleRate

\* the windows opened so far, of all keys
WindowsOpened == rl.window["ip1"].n + rl.window["ip2"].n

\* if (entry.count > RATE_LIMIT_REQUESTS) return false
LimitExceeded(count) == count > RATE_LIMIT_REQUESTS
\* if (entry.count >= RATE_LIMIT_REQUESTS) return false
LimitReached(count) == count >= RATE_LIMIT_REQUESTS

\* rateLimitMemory(key) at the instant t: the store after the call
StoreAfter(store, key, t) ==
  LET entry == store[key] IN
  IF ~entry.has \/ entry.resetAt <= t
  THEN [store EXCEPT ![key] = [has |-> TRUE, count |-> 1,
                               resetAt |-> t + RATE_LIMIT_WINDOW_MS]]
  ELSE IF LimitReached(entry.count) THEN store
  ELSE [store EXCEPT ![key].count = entry.count + 1]

\* rateLimitMemory(key) at the instant t: the value it returns
Allowed(store, key, t) ==
  LET entry == store[key] IN
  IF ~entry.has \/ entry.resetAt <= t THEN TRUE
  ELSE ~LimitReached(entry.count)

\* A request of the client key arrives at a route wrapped by withApiHandler:
\* rateLimit(ip), then the 429 response or the call of the handler.
ApiRequest(key) ==
  LET store == StoreAfter(rl.store, key, now)
      allowed == Allowed(rl.store, key, now)
      w == rl.window[key]
      opened == w.n = 0 \/ w.resetAt # store[key].resetAt
      cur == IF opened
             THEN [n |-> w.n + 1, resetAt |-> store[key].resetAt, start |-> now,
                   invoked |-> 0, limited |-> FALSE,
                   prevResetAt |-> w.resetAt, prevLimited |-> w.limited]
             ELSE w
  IN
  /\ WindowsOpened - w.n + cur.n <= MaxWindows
  /\ rl' = [rl EXCEPT !.store = store,
                      !.window[key] =
                        IF allowed THEN [cur EXCEPT !.invoked = @ + 1]
                        ELSE [cur EXCEPT !.limited = TRUE]]
  /\ UNCHANGED now

\* time passes: by one millisecond while the clock is small, or up to the
\* resetAt of a window
RateTick ==
  LET dues == {rl.store[k].resetAt : k \in {j \in RateKeys : rl.store[j].has}} IN
  /\ now' \in {t \in dues \cup {now + 1} : t > now /\ (t \in dues \/ t <= MaxTime)}
  /\ UNCHANGED rl

(***************************************************************************)
(* Two invocations of regenerateScene through handleRegenerateScene        *)
(* (hooks/useVideoGeneration.ts, the page's handleRegenerateScene)         *)
(***************************************************************************)
\* the two invocations
RegenCalls == {1, 2}

IdleRegenCall ==
  [pc |-> "idle", sceneIndex |-> 0, currentAssets |-> <<>>, newAssets |-> <<>>,
   aborted |-> FALSE, result |-> "none"]

\* rr.assets is the assets state of the page, rr.regenerateAbortRef holds the
\* invocation whose controller is in regenerateAbortRef.current (0: null),
\* rr.overlapped records that the second invocation started while the first
\* was in flight.
IdleOverlap ==
  [assets |-> <<>>, regeneratingSceneIndex |-> NoOption, regenerateAbortRef |-> 0,
   calls |-> [c \in RegenCalls |-> IdleRegenCall], overlapped |-> FALSE]

OverlapIdle == rr = IdleOverlap

\* between its call and its return or throw
RegenInFlight(call) == call.pc \in {"config", "asset", "assemble"}

\* handleRegenerateScene(index): `if (!script || !assets) return`, `if (!scene)
\* return`, then regenerateScene(index, scene, assets, ...): new
\* AbortController into regenerateAbortRef, setRegeneratingSceneIndex(index),
\* fetchProviderConfig is called. currentAssets is the assets state of the
\* render the handler belongs to.
HandleRegenerateScene(c, index) ==
  /\ rr.calls[c].pc = "idle"
  /\ \A b \in RegenCalls : b < c => rr.calls[b].pc # "idle"
  /\ index < Len(rr.assets)
  /\ rr' = [rr EXCEPT !.calls[c] = [IdleRegenCall EXCEPT !.pc = "config",
                                                        !.sceneIndex = index,
                                                        !.currentAssets = rr.assets],
                      !.regenerateAbortRef = c,
                      !.regeneratingSceneIndex = Option(index),
                      !.overlapped = @ \/ \E b \in RegenCalls : RegenInFlight(rr.calls[b])]

\* fetchProviderConfig resolved: setProgress, generateSceneAsset is called
OverlapConfigDone(c) ==
  /\ rr.calls[c].pc = "config"
  /\ rr' = [rr EXCEPT !.calls[c].pc = "asset"]

\* fetchProviderConfig rejected: the await is outside the try, the call
\* rejects and its finally block does not run
OverlapConfigThrow(c) ==
  /\ rr.calls[c].pc = "config"
  /\ rr' = [rr EXCEPT !.calls[c].pc = "threw"]

\* the finally block: regenerateAbortRef.current = null,
\* setRegeneratingSceneIndex(null), setProgress(reset)
OverlapFinally(r) ==
  [r EXCEPT !.regenerateAbortRef = 0, !.regeneratingSceneIndex = NoOption]

\* generateSceneAsset resolved: addCost, newAssets = [...currentAssets],
\* newAssets[sceneIndex] = asset, assembleVideo(newAssets, ...) is called
OverlapAssetReady(c) ==
  LET call == rr.calls[c] IN
  /\ call.pc = "asset" /\ ~call.aborted
  /\ rr' = [rr EXCEPT !.calls[c].pc = "assemble",
                      !.calls[c].newAssets =
                        StoreAt(call.currentAssets, call.sceneIndex,
                                RegeneratedAsset(call.sceneIndex))]

\* assembleVideo resolved: setVideoBlobUrl, setAssets(newAssets), return
\* {ok: true}, finally
OverlapAssembled(c) ==
  LET call == rr.calls[c] IN
  /\ call.pc = "assemble" /\ ~call.aborted
  /\ rr' = OverlapFinally([rr EXCEPT !.calls[c].pc = "returned",
                                     !.calls[c].result = "ok",
                                     !.assets = call.newAssets])

\* generateSceneAsset or assembleVideo rejected (with AbortError when the
\* signal of the call is aborted): catch, return {ok: false}, finally
OverlapFailed(c) ==
  LET call == rr.calls[c] IN
  /\ call.pc \in {"asset", "assemble"}
  /\ rr' = OverlapFinally([rr EXCEPT !.calls[c].pc = "returned",
                                     !.calls[c].result =
                                       RegenOutcome(IF call.aborted THEN "AbortError"
                                                    ELSE "Error")])

\* cancelRegenerateScene(): aborts the controller in regenerateAbortRef, if any
OverlapCancel ==
  /\ rr.regenerateAbortRef # 0
  /\ RegenInFlight(rr.calls[rr.regenerateAbortRef])
  /\ ~rr.calls[rr.regenerateAbortRef].aborted
  /\ rr' = [rr EXCEPT !.calls[rr.regenerateAbortRef].aborted = TRUE]

(***************************************************************************)
(* Narration edits (useScriptGeneration), their debounce                    *)
(* (lib/useDebouncedCallback.ts) and the page's handleCreateVideo           *)
(***************************************************************************)
\* the narration of every scene of the generated script
ScriptNarration == "script"
\* what the user types into a narration field
Texts == {"", "one", "two"}

\* nr.editedScenes is the editedScenes state (the narration of each scene),
\* nr.pending is pendingNarrationRef.current, nr.timeoutRef and
\* nr.pendingArgsRef are the refs of useDebouncedCallback, nr.passed is the
\* narration of each scene of the array handed to createVideo. History:
\* nr.edits counts the updateSceneNarration calls, nr.recorded holds for every
\* scene the text of the latest updateSceneNarration call before
\* handleCreateVideo, nr.armed whether the timer was armed at that moment.
IdleNarration ==
  [editedScenes |-> <<>>, pending |-> <<>>, timeoutRef |-> FALSE,
   pendingArgsRef |-> FALSE, passed |-> <<>>, called |-> FALSE, edits |-> 0,
   recorded |-> <<>>, armed |-> FALSE]

NarrationIdle == nr = IdleNarration

\* setEditedScenes(result.data.scenes ? [...result.data.scenes] : null) of
\* generateScript, for a script of n scenes
ScriptGenerated(n) ==
  [IdleNarration EXCEPT !.editedScenes = [i \in 1 .. n |-> ScriptNarration],
                        !.pending = [i \in 1 .. n |-> NoOption],
                        !.recorded = [i \in 1 .. n |-> NoOption]]

\* applyAllPendingNarrations(): nothing when no edit is pending; otherwise
\* pendingNarrationRef.current = {} and setEditedScenes(prev => prev with the
\* narration of every pending index replaced)
ApplyAllPendingNarrations(r) ==
  IF \A i \in DOMAIN r.pending : ~r.pending[i].has THEN r
  ELSE [r EXCEPT !.pending = [i \in DOMAIN r.pending |-> NoOption],
                 !.editedScenes = [i \in DOMAIN r.editedScenes |->
                                     IF r.pending[i].has THEN r.pending[i].v
                                     ELSE r.editedScenes[i]]]

\* the timer callback and flush: the callback runs when pendingArgsRef holds
\* arguments (the empty argument list is an array, hence truthy)
RunPending(r) ==
  IF r.pendingArgsRef
  THEN [ApplyAllPendingNarrations(r) EXCEPT !.pendingArgsRef = FALSE]
  ELSE r

\* flush(): clearTimeout, then the pending call
Flush(r) == RunPending([r EXCEPT !.timeoutRef = FALSE])

\* getSceneNarration(index) of a render with the state editedScenes: the
\* pending edit of the ref, else the narration in editedScenes
GetSceneNarration(pending, editedScenes, i) ==
  IF pending[i].has THEN pending[i].v ELSE editedScenes[i]

\* a || b on strings
OrElse(a, b) == IF a = "" THEN b ELSE a

\* updateSceneNarration(index, narration): the edit goes to
\* pendingNarrationRef, debouncedApply() stores its arguments and restarts the
\* 300 ms timer
UpdateSceneNarration(i, text) ==
  /\ i \in DOMAIN nr.pending
  /\ nr.edits < MaxEdits
  /\ nr' = [nr EXCEPT !.pending[i] = Option(text), !.pendingArgsRef = TRUE,
                      !.timeoutRef = TRUE, !.edits = @ + 1,
                      !.recorded[i] = IF nr.called THEN @ ELSE Option(text)]

\* the debounce timer fires, 300 ms after the last edit or later
DebounceFire ==
  /\ nr.timeoutRef
  /\ nr' = RunPending([nr EXCEPT !.timeoutRef = FALSE])

\* handleCreateVideo(): flushNarrationUpdates(), then scenesToUse is built
\* from scenesForVideo and getSceneNarration, which belong to the render the
\* handler was created in and so hold the editedScenes state of before the
\* flush, while pendingNarrationRef is read as the flush left it;
\* createVideo(scenesToUse, ...) is called
HandleCreateVideo ==
  /\ ~nr.called
  /\ LET flushed == Flush(nr)
         scenesForVideo == nr.editedScenes
     IN nr' = [flushed EXCEPT !.called = TRUE, !.armed = nr.timeoutRef,
                              !.passed = [i \in DOMAIN scenesForVideo |->
                                            OrElse(GetSceneNarration(flushed.pending,
                                                                     nr.editedScenes, i),
                                                   scenesForVideo[i])]]

\* the models added for single helpers at rest
MoreIdle == FetchIdle /\ RateIdle /\ OverlapIdle /\ NarrationIdle

\* the helpers and the regeneration at rest
LibIdle == RetryIdle /\ ThrottleIdle /\ RegenIdle /\ now = 0

(***************************************************************************)
(* Specification of runWithConcurrency with an arbitrary task              *)
(***************************************************************************)
PoolInit ==
  /\ \E n \in 0 .. MaxItems, c \in 1 .. SCENE_ASSET_CONCURRENCY : PoolIdle(n, c)
  /\ CreateIdle
  /\ MoreIdle
  /\ LibIdle
  /\ assets = "null" /\ videoBlobUrl = "null" /\ totalCost = 0
  /\ AssembleIdle
  /\ CaptionIdle

PoolNext ==
  \/ PoolStart /\ UNCHANGED <<createVars, assembleVars, captionVars, moreVars, libVars>>
  \/ \E w \in 0 .. (MaxItems - 1) : WorkerResume(w) /\ UNCHANGED <<createVars, assembleVars, captionVars, moreVars, libVars>>
  \/ \E i \in 0 .. (MaxItems - 1), v \in Values : FnResolve(i, v) /\ UNCHANGED <<createVars, assembleVars, captionVars, moreVars, libVars>>
  \/ \E i \in 0 .. (MaxItems - 1) : FnReject(i, "Error") /\ UNCHANGED <<createVars, assembleVars, captionVars, moreVars, libVars>>

SpecPool == PoolInit /\ [][PoolNext]_vars

(***************************************************************************)
(* Specification of a createVideo batch                                    *)
(***************************************************************************)
CreateInit ==
  /\ \E n \in 1 .. MaxBatch : PoolIdle(n, SCENE_ASSET_CONCURRENCY)
  /\ CreateIdle
  /\ MoreIdle
  /\ LibIdle
  /\ assets = "null" /\ videoBlobUrl = "null"
  /\ totalCost \in {0, SESSION_COST_BLOCK}
  /\ AssembleIdle
  /\ CaptionIdle

Batch == 0 .. (MaxBatch - 1)

\* a step of the client leaves the route and the caption computation alone
ServerFrame == UNCHANGED <<assembleVars, captionVars, moreVars, libVars>>

CreateNext ==
  \/ CreateVideoCall /\ ServerFrame
  \/ ConfigDone /\ ServerFrame
  \/ ConfigThrow /\ ServerFrame
  \/ \E w \in Batch : BatchWorkerResume(w) /\ ServerFrame
  \/ \E i \in Batch, k \in Kinds : SceneRequestStep(i, k, FetchOk(req[<<i, k>>]), FALSE) /\ ServerFrame
  \/ \E i \in Batch, k \in Kinds : SceneRequestStep(i, k, Fetch5xx(req[<<i, k>>]), ~RetryLeft(req[<<i, k>>].i)) /\ ServerFrame
  \/ \E i \in Batch, k \in Kinds : SceneRequestStep(i, k, FetchNonOk(req[<<i, k>>]), TRUE) /\ ServerFrame
  \/ \E i \in Batch, k \in Kinds : SceneRequestStep(i, k, FetchNetErr(req[<<i, k>>]), ~RetryLeft(req[<<i, k>>].i)) /\ ServerFrame
  \/ \E i \in Batch, k \in Kinds : SceneRequestStep(i, k, FetchAbort(req[<<i, k>>]), FALSE) /\ ServerFrame
  \/ \E i \in Batch, k \in Kinds : SceneRequestStep(i, k, BackoffDone(req[<<i, k>>]), FALSE) /\ ServerFrame
  \/ \E i \in Batch, k \in Kinds : SceneRequestStep(i, k, JsonRead(req[<<i, k>>]), FALSE) /\ ServerFrame
  \/ \E i \in Batch, k \in Kinds : SceneRequestStep(i, k, JsonInvalid(req[<<i, k>>]), TRUE) /\ ServerFrame
  \/ \E i \in Batch, k \in Kinds : SceneRequestStep(i, k, JsonAbort(req[<<i, k>>]), FALSE) /\ ServerFrame
  \/ \E i \in Batch : ProbeOk(i) /\ ServerFrame
  \/ \E i \in Batch : ProbeFail(i) /\ ServerFrame
  \/ GenerationDone /\ ServerFrame
  \/ GenerationFailed /\ ServerFrame
  \/ AssembleRequestStep(FetchOk(req[AsmId]), FALSE) /\ ServerFrame
  \/ AssembleRequestStep(Fetch5xx(req[AsmId]), ~RetryLeft(req[AsmId].i)) /\ ServerFrame
  \/ AssembleRequestStep(FetchNonOk(req[AsmId]), TRUE) /\ ServerFrame
  \/ AssembleRequestStep(FetchNetErr(req[AsmId]), ~RetryLeft(req[AsmId].i)) /\ ServerFrame
  \/ AssembleRequestStep(FetchAbort(req[AsmId]), FALSE) /\ ServerFrame
  \/ AssembleRequestStep(BackoffDone(req[AsmId]), FALSE) /\ ServerFrame
  \/ AssembleRequestStep(BlobRead(req[AsmId]), FALSE) /\ ServerFrame
  \/ AssembleRequestStep(BlobAbort(req[AsmId]), FALSE) /\ ServerFrame
  \/ CancelVideoGeneration /\ ServerFrame

SpecCreate == CreateInit /\ [][CreateNext]_vars

(***************************************************************************)
(* Specification of one request to the assemble-video route                *)
(***************************************************************************)
\* a step of the route leaves the client alone
ClientFrame == UNCHANGED <<poolVars, createVars, captionVars, moreVars, libVars>>

AssembleInit ==
  /\ PoolIdle(0, SCENE_ASSET_CONCURRENCY)
  /\ CreateIdle
  /\ MoreIdle
  /\ LibIdle
  /\ assets = "null" /\ videoBlobUrl = "null" /\ totalCost = 0
  /\ CaptionIdle
  /\ \E rq \in Requests : hs = <<IdleHandler(rq)>>
  /\ fs = [d \in 0 .. MaxTime |-> Absent]
  /\ clock = 0

AssembleNext ==
  \/ \E h \in DOMAIN hs : HandleRequest(h) /\ ClientFrame
  \/ \E h \in DOMAIN hs : ParseBody(h) /\ ClientFrame
  \/ \E h \in DOMAIN hs : RenderEnd(h) /\ ClientFrame
  \/ \E h \in DOMAIN hs : RenderError(h) /\ ClientFrame
  \/ \E h \in DOMAIN hs : ConcatOpen(h) /\ ClientFrame
  \/ \E h \in DOMAIN hs : ConcatEnd(h) /\ ClientFrame
  \/ \E h \in DOMAIN hs : ConcatError(h) /\ ClientFrame
  \/ \E h \in DOMAIN hs : ConcatTimeout(h) /\ ClientFrame
  \/ \E h \in DOMAIN hs : CleanupUnlink(h) /\ ClientFrame
  \/ \E h \in DOMAIN hs : CleanupRmdir(h) /\ ClientFrame
  \/ Tick /\ ClientFrame

SpecAssemble == AssembleInit /\ [][AssembleNext]_vars

(***************************************************************************)
(* Specification of two requests to the assemble-video route that are in   *)
(* flight together: each is invoked at any millisecond, and their steps    *)
(* interleave at the awaits                                                *)
(***************************************************************************)
\* one-scene bodies that pass the schema, sent with a content-length header
ConcurrentRequests ==
  {rq \in Requests :
     /\ rq.contentLength = "small"
     /\ rq.body.json /\ Len(rq.body.scenes) = 1 /\ SchemaOk(rq.body)}

ConcurrentInit ==
  /\ PoolIdle(0, SCENE_ASSET_CONCURRENCY)
  /\ CreateIdle
  /\ MoreIdle
  /\ LibIdle
  /\ assets = "null" /\ videoBlobUrl = "null" /\ totalCost = 0
  /\ CaptionIdle
  /\ \E rq \in ConcurrentRequests : hs = <<IdleHandler(rq), IdleHandler(rq)>>
  /\ fs = [d \in 0 .. MaxTime |-> Absent]
  /\ clock = 0

SpecConcurrent == ConcurrentInit /\ [][AssembleNext]_vars

(***************************************************************************)
(* Specification of the caption computation of one scene                   *)
(***************************************************************************)
CaptionFrame == UNCHANGED <<poolVars, createVars, assembleVars, libVars, moreVars>>

CaptionInit ==
  /\ PoolIdle(0, SCENE_ASSET_CONCURRENCY)
  /\ CreateIdle
  /\ MoreIdle
  /\ LibIdle
  /\ assets = "null" /\ videoBlobUrl = "null" /\ totalCost = 0
  /\ AssembleIdle
  /\ \E c \in BOOLEAN, n \in Narrations, d \in Durations :
       cap = [IdleCaption EXCEPT !.pc = "scene", !.captions = c, !.narration = n,
                                 !.durationSeconds = d]

CaptionNext ==
  \/ NormaliseCaption /\ CaptionFrame
  \/ SplitSegments /\ CaptionFrame
  \/ ComputeTimings /\ CaptionFrame
  \/ BuildFilters /\ CaptionFrame

SpecCaption == CaptionInit /\ [][CaptionNext]_vars

(***************************************************************************)
(* Specification of withTimeout(withRetry(fn, options), ms)                *)
(***************************************************************************)
RetryFrame == UNCHANGED <<poolVars, createVars, assembleVars, captionVars, moreVars, thr, rg>>

AttemptOptions == {NoOption} \cup {Option(n) : n \in 0 .. MaxAttempts}
InitialMsOptions == {NoOption, Option(1), Option(2)}
TimeoutMs == {2, 5}

RetryInit ==
  /\ PoolIdle(0, SCENE_ASSET_CONCURRENCY)
  /\ CreateIdle
  /\ MoreIdle
  /\ assets = "null" /\ videoBlobUrl = "null" /\ totalCost = 0
  /\ AssembleIdle
  /\ CaptionIdle
  /\ LibIdle

RetryNext ==
  \/ \E a \in AttemptOptions, d \in InitialMsOptions, ms \in TimeoutMs :
       WithRetryCall(a, d, ms) /\ RetryFrame
  \/ \E v \in Values : RetryFnResolve(v) /\ RetryFrame
  \/ RetryFnReject /\ RetryFrame
  \/ BackoffFire /\ RetryFrame
  \/ TimeoutFire /\ RetryFrame
  \/ RetryTick /\ RetryFrame

SpecRetry == RetryInit /\ [][RetryNext]_vars

(***************************************************************************)
(* Specification of concurrent calls of withReplicateThrottle              *)
(***************************************************************************)
ThrottleFrame == UNCHANGED <<poolVars, createVars, assembleVars, captionVars, moreVars, rt, tw, rg>>

ThrottleMs == {NoOption, Option(2), Option(3)}

\* Date.now() is positive when the module is loaded
ThrottleInit ==
  /\ PoolIdle(0, SCENE_ASSET_CONCURRENCY)
  /\ CreateIdle
  /\ MoreIdle
  /\ assets = "null" /\ videoBlobUrl = "null" /\ totalCost = 0
  /\ AssembleIdle
  /\ CaptionIdle
  /\ RetryIdle /\ ThrottleIdle /\ RegenIdle
  /\ now = 1

ThrottleNext ==
  \/ \E ms \in ThrottleMs : ThrottleCall(ms) /\ ThrottleFrame
  \/ \E c \in 1 .. MaxCalls : GateRun(c) /\ ThrottleFrame
  \/ \E c \in 1 .. MaxCalls : GateTimerFire(c) /\ ThrottleFrame
  \/ \E c \in 1 .. MaxCalls : ThrottleFire(c) /\ ThrottleFrame
  \/ \E c \in 1 .. MaxCalls : \E outcome \in {FnValueOf(c), ErrorOf(c)} :
       ThrottledFnSettle(c, outcome) /\ ThrottleFrame
  \/ ThrottleTick /\ ThrottleFrame

SpecThrottle == ThrottleInit /\ [][ThrottleNext]_vars

\* The event loop runs every job that is ready and fires every timer that is
\* due, and time passes; a fn need never settle.
ThrottleFairness ==
  /\ \A c \in 1 .. MaxCalls : WF_vars(GateRun(c) /\ ThrottleFrame)
  /\ \A c \in 1 .. MaxCalls : WF_vars(GateTimerFire(c) /\ ThrottleFrame)
  /\ \A c \in 1 .. MaxCalls : WF_vars(ThrottleFire(c) /\ ThrottleFrame)
  /\ WF_vars(ThrottleTick /\ ThrottleFrame)

SpecThrottleFair == SpecThrottle /\ ThrottleFairness

(***************************************************************************)
(* Specification of one fetchWithRetry call                                *)
(***************************************************************************)
FetchFrame == UNCHANGED <<poolVars, createVars, assembleVars, captionVars, libVars, rl, rr, nr>>

RetriesOptions == {NoOption} \cup {Option(n) : n \in -1 .. MaxRetries}

FetchInit ==
  /\ PoolIdle(0, SCENE_ASSET_CONCURRENCY)
  /\ CreateIdle
  /\ MoreIdle
  /\ LibIdle
  /\ assets = "null" /\ videoBlobUrl = "null" /\ totalCost = 0
  /\ AssembleIdle
  /\ CaptionIdle

FetchNext ==
  \/ \E retries \in RetriesOptions : FetchWithRetryCall(retries) /\ FetchFrame
  \/ \E kind \in {"ok", "5xx", "4xx"} : FetchResponse(kind) /\ FetchFrame
  \/ FetchRejection /\ FetchFrame
  \/ FetchBackoffFire /\ FetchFrame
  \/ FetchSignalAbort /\ FetchFrame

SpecFetch == FetchInit /\ [][FetchNext]_vars

(***************************************************************************)
(* Specification of the requests of two clients to a rate-limited route    *)
(***************************************************************************)
RateFrame ==
  UNCHANGED <<poolVars, createVars, assembleVars, captionVars, rt, tw, thr, rg, fw, rr, nr>>

RateInit ==
  /\ PoolIdle(0, SCENE_ASSET_CONCURRENCY)
  /\ CreateIdle
  /\ MoreIdle
  /\ LibIdle
  /\ assets = "null" /\ videoBlobUrl = "null" /\ totalCost = 0
  /\ AssembleIdle
  /\ CaptionIdle

RateNext ==
  \/ \E key \in RateKeys : ApiRequest(key) /\ RateFrame
  \/ RateTick /\ RateFrame

SpecRate == RateInit /\ [][RateNext]_vars

(***************************************************************************)
(* Specification of two regenerateScene calls on a finished video          *)
(***************************************************************************)
OverlapFrame ==
  UNCHANGED <<poolVars, createVars, assembleVars, captionVars, libVars, fw, rl, nr>>

OverlapInit ==
  /\ PoolIdle(0, SCENE_ASSET_CONCURRENCY)
  /\ CreateIdle
  /\ FetchIdle /\ RateIdle /\ NarrationIdle
  /\ \E n \in 2 .. MaxRegen : rr = [IdleOverlap EXCEPT !.assets = [j \in 1 .. n |-> Asset(j - 1)]]
  /\ LibIdle
  /\ assets = "null" /\ videoBlobUrl = "null" /\ totalCost = 0
  /\ AssembleIdle
  /\ CaptionIdle

OverlapNext ==
  \/ \E c \in RegenCalls, index \in 0 .. (MaxRegen - 1) :
       HandleRegenerateScene(c, index) /\ OverlapFrame
  \/ \E c \in RegenCalls : OverlapConfigDone(c) /\ OverlapFrame
  \/ \E c \in RegenCalls : OverlapConfigThrow(c) /\ OverlapFrame
  \/ \E c \in RegenCalls : OverlapAssetReady(c) /\ OverlapFrame
  \/ \E c \in RegenCalls : OverlapAssembled(c) /\ OverlapFrame
  \/ \E c \in RegenCalls : OverlapFailed(c) /\ OverlapFrame
  \/ OverlapCancel /\ OverlapFrame

SpecOverlap == OverlapInit /\ [][OverlapNext]_vars

(***************************************************************************)
(* Specification of narration edits followed by handleCreateVideo          *)
(***************************************************************************)
NarrationFrame ==
  UNCHANGED <<poolVars, createVars, assembleVars, captionVars, libVars, fw, rl, rr>>

NarrationInit ==
  /\ PoolIdle(0, SCENE_ASSET_CONCURRENCY)
  /\ CreateIdle
  /\ FetchIdle /\ RateIdle /\ OverlapIdle
  /\ \E n \in 1 .. MaxReqScenes : nr = ScriptGenerated(n)
  /\ LibIdle
  /\ assets = "null" /\ videoBlobUrl = "null" /\ totalCost = 0
  /\ AssembleIdle
  /\ CaptionIdle

NarrationNext ==
  \/ \E i \in 1 .. MaxReqScenes, text \in Texts :
       UpdateSceneNarration(i, text) /\ NarrationFrame
  \/ DebounceFire /\ NarrationFrame
  \/ HandleCreateVideo /\ NarrationFrame

SpecNarration == NarrationInit /\ [][NarrationNext]_vars

(***************************************************************************)
(* Specification of one regenerateScene call after a finished batch        *)
(***************************************************************************)
RegenFrame ==
  UNCHANGED <<poolVars, cv, cvResult, abortRef, aborted, req, scenePc, completed,
              genuineFailure, assembleVars, captionVars, moreVars, rt, tw, thr, now>>

\* the hook after createVideo returned {ok: true} for n scenes
RegenInit ==
  /\ PoolIdle(0, SCENE_ASSET_CONCURRENCY)
  /\ CreateIdle
  /\ MoreIdle
  /\ AssembleIdle
  /\ CaptionIdle
  /\ RetryIdle /\ ThrottleIdle
  /\ now = 0
  /\ assets = "A0" /\ videoBlobUrl = "batchUrl" /\ totalCost = 0
  /\ \E n \in 1 .. MaxRegen :
       rg = [IdleRegen EXCEPT !.heap["A0"] = [j \in 1 .. n |-> Asset(j - 1)]]

RegenNext ==
  \/ \E k \in 0 .. (MaxRegen - 1), prev \in {"null", "batchUrl"} :
       RegenerateSceneCall(k, prev) /\ RegenFrame
  \/ RegenConfigDone /\ RegenFrame
  \/ RegenConfigThrow /\ RegenFrame
  \/ RegenAssetReady /\ RegenFrame
  \/ \E e \in {"Error", "AbortError"} : RegenAssetFailed(e) /\ RegenFrame
  \/ \E o \in {"ok", "Error", "AbortError"} : RegenAssembleSettle(o) /\ RegenFrame
  \/ CancelRegenerateScene /\ RegenFrame

SpecRegen == RegenInit /\ [][RegenNext]_vars

(***************************************************************************)
(* Specification of the hook with a batch and a regeneration in flight     *)
(***************************************************************************)
\* the hook after a first batch of one scene: createVideo is called again and
\* the scene of the first batch is regenerated
HookInit ==
  /\ \E n \in 1 .. MaxHookBatch : PoolIdle(n, SCENE_ASSET_CONCURRENCY)
  /\ CreateIdle
  /\ MoreIdle
  /\ AssembleIdle
  /\ CaptionIdle
  /\ RetryIdle /\ ThrottleIdle
  /\ now = 0
  /\ assets = "A0" /\ videoBlobUrl = "batchUrl" /\ totalCost = 0
  /\ rg = [IdleRegen EXCEPT !.heap["A0"] = <<Asset(0)>>]

\* the steps of the batch and of the regeneration other than the two cancel
\* functions, and the cancel functions
HookNext ==
  \/ CreateNext /\ aborted' = aborted
  \/ RegenNext /\ rg'.aborted = rg.aborted
  \/ \E fn \in {"cancelVideoGeneration", "cancelRegenerateScene"} :
       CancelCall(fn) /\ UNCHANGED <<assembleVars, captionVars, moreVars, rt, tw, thr, now>>

SpecHook == HookInit /\ [][HookNext]_vars

InFlight == {i \in DOMAIN fnState : fnState[i] = "running"}

\* C1: when every fn call succeeded, the array returned by runWithConcurrency
\* has one entry per item and entry i is the value fn(items[i], i) resolved
\* with, whatever the order in which the calls completed.
C1_OrderPreserved ==
  poolState = "resolved" =>
    /\ DOMAIN results = Indices
    /\ \A i \in Indices : fnState[i] = "resolved" /\ results[i] = fnValue[i]

\* a run of more items than workers, completed, in which a later item's call
\* resolved with a different value than an earlier one's
C1_Witness ==
  /\ poolState = "resolved"
  /\ NItems > concurrency
  /\ concurrency >= 2
  /\ \E i, j \in Indices : i < j /\ results[i] # results[j]

\* C2: the number of fn invocations started and not yet settled never
\* exceeds min(concurrency, items.length).
C2_BoundedInFlight ==
  Cardinality(InFlight) <= Min(concurrency, NItems)

\* all three slots of a pool of concurrency 3 busy, with items still unclaimed
C2_Witness ==
  /\ concurrency = SCENE_ASSET_CONCURRENCY
  /\ Cardinality(InFlight) = SCENE_ASSET_CONCURRENCY
  /\ NItems > SCENE_ASSET_CONCURRENCY
  /\ \E i \in Indices : results[i] # Hole

\* C9: a createVideo batch that was cancelled in flight, and in which nothing
\* failed on its own, returns the cancellation outcome.
C9_CancelYieldsCancelled ==
  (cv = "returned" /\ aborted /\ ~genuineFailure) => cvResult = "cancelled"

\* C10: once the generation of a scene has failed, the assemble request is
\* never issued, the assets and videoBlobUrl states keep their values, and
\* createVideo can only return {ok: false}.
C10_FailFastDiscard ==
  (\E i \in Indices : fnState[i] = "rejected") =>
    /\ req[AsmId] = NoReq
    /\ cv # "assembling"
    /\ assets = "null" /\ videoBlobUrl = "null"
    /\ cv = "returned" => cvResult \in {"failed", "cancelled"}

\* createVideo has returned a failure after one scene failed on its own
\* while another scene of the batch had completed and been stored
C10_Witness ==
  /\ cv = "returned" /\ cvResult = "failed"
  /\ \E i, j \in Indices :
       /\ fnState[i] = "rejected" /\ fnErr[i] = "Error"
       /\ fnState[j] = "resolved" /\ results[j] = Asset(j)

\* C3: once the assemble-video handler has returned or thrown, whatever the
\* outcome, the workspace directory it created no longer exists.
C3_WorkspaceRemoved ==
  \A h \in DOMAIN hs :
    (hs[h].pc = "done" /\ hs[h].created) => ~fs[hs[h].tmpDir].exists

\* the request body is rejected before the render loop: request.json() throws
\* or the schema refuses it
FailsValidation(rq) == ~rq.body.json \/ ~SchemaOk(rq.body)

\* C4: for a request that fails validation no workspace directory is created
\* at any point of its handling.
C4_ValidationBeforeStorage ==
  \A h \in DOMAIN hs : FailsValidation(hs[h].request) => ~hs[h].created

\* C5: a failed captioned render of a scene is followed by exactly one render
\* of the same scene with the base chain; when that one ends the loop goes on
\* past the scene with its segment recorded, and the handler throws a render
\* error only right after a failed render with the base chain.
C5_CaptionFallback ==
  \A h \in DOMAIN hs :
    LET log == hs[h].log
        n == Len(log)
    IN
    /\ \A k \in 1 .. n :
         (log[k][2] = "captioned" /\ log[k][3] = "error") =>
           IF k = n
           THEN /\ hs[h].pc = "render"
                /\ hs[h].i = log[k][1]
                /\ hs[h].chain = "base"
                /\ hs[h].threw = "none"
           ELSE /\ log[k + 1][1] = log[k][1]
                /\ log[k + 1][2] = "base"
                /\ (k + 2 <= n => log[k + 2][1] > log[k][1])
                /\ log[k + 1][3] = "end" =>
                     /\ \E p \in DOMAIN hs[h].segmentPaths :
                          hs[h].segmentPaths[p] = log[k][1]
                     /\ hs[h].i > log[k][1]
                     /\ (k + 1 = n => hs[h].threw # "RenderError")
                /\ log[k + 1][3] = "error" =>
                     /\ k + 1 = n
                     /\ hs[h].threw = "RenderError"
    /\ hs[h].threw = "RenderError" =>
         /\ n > 0
         /\ log[n][2] = "base"
         /\ log[n][3] = "error"

\* a request of two scenes answered 200 although the captioned render of its
\* first scene failed: the render without captions succeeded in its place
C5_Witness ==
  \E h \in DOMAIN hs :
    /\ hs[h].status = 200
    /\ hs[h].pc = "done"
    /\ Len(hs[h].segmentPaths) = 2
    /\ Len(hs[h].log) >= 3
    /\ hs[h].log[1] = <<0, "captioned", "error">>
    /\ hs[h].log[2] = <<0, "base", "end">>

\* C6 (as stated): the caption timings of a scene start at 0, each segment
\* starts where the previous one ends, every start <= end, and the last end
\* equals the scene's effective duration.
C6_TimingsCoverScene ==
  (cap.pc \in {"filters", "captioned"} /\ Len(cap.timings) > 0) =>
    LET tm == cap.timings
        n == Len(tm)
    IN /\ tm[1].start = Zero
       /\ \A k \in 2 .. n : tm[k].start = tm[k - 1].end
       /\ \A k \in 1 .. n : FLeq(tm[k].start, tm[k].end)
       /\ tm[n].end = cap.effectiveDuration

\* C6 (amended): the caption timings of a scene start at 0, each segment
\* starts where the previous one ends, every start <= end, and the last end
\* equals the scene's effective duration up to the rounding of the
\* floating-point sum: for n segments the two differ by at most n units in
\* the last place of the effective duration.
C6_TimingsCoverSceneRounded ==
  (cap.pc \in {"filters", "captioned"} /\ Len(cap.timings) > 0) =>
    LET tm == cap.timings
        n == Len(tm)
        x == tm[n].end
        y == cap.effectiveDuration
        e == Min(x.e, y.e)
        a == StripBits(Repeat(0, x.e - e) \o x.m)
        b == StripBits(Repeat(0, y.e - e) \o y.m)
        tol == Repeat(0, y.e - e) \o NatBits(n)
    IN /\ tm[1].start = Zero
       /\ \A k \in 2 .. n : tm[k].start = tm[k - 1].end
       /\ \A k \in 1 .. n : FLeq(tm[k].start, tm[k].end)
       /\ NatLeq(a, StripBits(AddBits(b, tol, 0)))
       /\ NatLeq(b, StripBits(AddBits(a, tol, 0)))

\* the filters of a scene of several segments have been built, and the sum
\* of the segment durations came out next to, not at, the effective duration
C6_Witness ==
  /\ cap.pc = "captioned"
  /\ Len(cap.timings) >= 2
  /\ cap.timings[Len(cap.timings)].end # cap.effectiveDuration
  /\ cap.windows[Len(cap.windows)].end = ToFixed2(cap.effectiveDuration)

\* C7: every caption segment the segmenter produces has at most
\* maxCharsPerSegment (45) characters, whatever the narration.
C7_SegmentsWithinLimit ==
  cap.pc \in {"timing", "filters", "captioned"} =>
    \A k \in 1 .. Len(cap.segments) : Len(cap.segments[k]) <= maxCharsPerSegment

\* C8: the duration of each caption segment is the effective duration times
\* the share of the segment's words in the words of all segments; a segment
\* with twice the words of another segment of the scene lasts twice as long;
\* segments of 3 and 6 words over 9 s span 0..3 and 3..9.
C8_WordProportionalDurations ==
  (cap.pc \in {"filters", "captioned"} /\ Len(cap.timings) > 0) =>
    LET tm == cap.timings
        n == Len(tm)
        words(k) == Cardinality({p \in DOMAIN cap.segments[k] : cap.segments[k][p] = Space}) + 1
        total == Sum([k \in 1 .. n |-> words(k)])
    IN /\ n = Len(cap.segments)
       /\ \A k \in 1 .. n :
            tm[k].segmentDuration = FMul(cap.effectiveDuration, FDiv(words(k), total))
       /\ \A i, j \in 1 .. n :
            words(j) = 2 * words(i) =>
              tm[j].segmentDuration = [tm[i].segmentDuration EXCEPT !.e = @ + 1]
       /\ (n = 2 /\ words(1) = 3 /\ words(2) = 6 /\ cap.effectiveDuration = FromInt(9)) =>
            /\ tm[1].start = Zero /\ tm[1].end = FromInt(3)
            /\ tm[2].start = FromInt(3) /\ tm[2].end = FromInt(9)

\* two sentences of 3 and 6 words over a scene of 9 s: the windows printed
\* into the filters are 0.00..3.00 and 3.00..9.00
C8_Witness ==
  /\ cap.pc = "captioned"
  /\ cap.wordCounts = <<3, 6>>
  /\ cap.effectiveDuration = FromInt(9)
  /\ cap.windows = <<[start |-> 0, end |-> 300], [start |-> 300, end |-> 900]>>

\* C11: once the generation of a scene of the batch has failed, no worker
\* starts the generation of a scene that was not yet claimed.
C11_NoStartAfterFailure ==
  [][(\E i \in Indices : fnState[i] = "rejected") =>
       \A j \in Indices : fnState[j] = "unstarted" => fnState'[j] = "unstarted"]_vars


\* C12: when every attempt fails, withRetry has invoked fn exactly attempts
\* times (3 when the option is left out), never more, and rejects with the
\* error object the last attempt threw.
C12_ExhaustedAttempts ==
  /\ rt.pc # "idle" => rt.calls <= rt.attempts
  /\ (rt.pc = "rejected" /\ rt.attempts >= 1) =>
       /\ rt.calls = rt.attempts
       /\ Len(rt.log) = rt.attempts
       /\ \A k \in 1 .. Len(rt.log) : rt.log[k] = ErrorOf(k)
       /\ rt.err = ErrorOf(rt.attempts)

\* all three default attempts failed and withRetry rejected
C12_Witness ==
  /\ rt.pc = "rejected"
  /\ rt.attempts = DEFAULT_ATTEMPTS
  /\ rt.calls = DEFAULT_ATTEMPTS
  /\ rt.err = ErrorOf(DEFAULT_ATTEMPTS)

\* C13: an attempt that succeeds is the last call of fn: withRetry resolves
\* with its value, and when attempt k is the first to succeed fn has been
\* invoked exactly k times.
C13_FirstSuccessReturned ==
  /\ \A k \in 1 .. Len(rt.log) :
       rt.log[k] \in Values =>
         /\ k = Len(rt.log)
         /\ rt.pc = "resolved"
         /\ rt.value = rt.log[k]
         /\ rt.calls = k
  /\ rt.pc = "resolved" => Len(rt.log) >= 1 /\ rt.log[Len(rt.log)] \in Values

\* the second attempt succeeded after the first one failed
C13_Witness ==
  /\ rt.pc = "resolved"
  /\ rt.calls = 2
  /\ rt.log = <<ErrorOf(1), rt.value>>

\* C14: the promise of withTimeout is settled by the first of the three
\* events (the wrapped promise resolves, it rejects, the deadline expires) and
\* keeps that outcome whatever happens later.
C14_FirstEventWins ==
  tw.pc # "idle" =>
    IF tw.events = <<>>
    THEN tw.pc = "pending"
    ELSE CASE tw.events[1] = "value" ->
                /\ tw.pc = "resolved" /\ rt.pc = "resolved" /\ tw.value = rt.value
                /\ Len(tw.events) = 1
           [] tw.events[1] = "error" ->
                /\ tw.pc = "rejected" /\ rt.pc = "rejected" /\ tw.err = rt.err
                /\ Len(tw.events) = 1
           [] tw.events[1] = "deadline" ->
                /\ tw.pc = "rejected" /\ tw.err = TimeoutMessage
                /\ Len(tw.events) <= 2

\* the deadline expired, and the wrapped promise resolved afterwards
C14_Witness ==
  /\ tw.events = <<"deadline", "value">>
  /\ tw.pc = "rejected"
  /\ tw.err = TimeoutMessage
  /\ rt.pc = "resolved"


\* C15: when all calls of withReplicateThrottle use the same spacing ms, the
\* instants at which two of them invoke fn (and set lastCallTime) are at least
\* ms apart, in the order the calls were made.
C15_MinimumSpacing ==
  (\A c, d \in DOMAIN thr.calls : thr.calls[c].ms = thr.calls[d].ms) =>
    \A c, d \in DOMAIN thr.calls :
      (c < d /\ thr.calls[d].pc = "fired") =>
        /\ thr.calls[c].pc = "fired"
        /\ thr.calls[d].firedAt - thr.calls[c].firedAt >= thr.calls[d].ms

\* three calls with the same spacing have fired, the second one a gate sleep
\* after the first
C15_Witness ==
  /\ Len(thr.calls) = 3
  /\ \A c \in DOMAIN thr.calls : thr.calls[c].pc = "fired" /\ thr.calls[c].ms = 2
  /\ thr.calls[2].due > 0
  /\ thr.calls[2].firedAt = thr.calls[1].firedAt + 2


\* the array the caller passed to regenerateScene still holds the assets of
\* the batch
CurrentAssetsIntact ==
  \A j \in DOMAIN rg.heap[rg.currentAssets] : rg.heap[rg.currentAssets][j] = Asset(j - 1)

\* C16: after a successful regenerateScene(k, ...) the assets state is a new
\* list of the same length as currentAssets in which position k holds the new
\* asset and every other position holds the object currentAssets holds there;
\* the array currentAssets itself is never modified.
C16_OnlySceneReplaced ==
  /\ CurrentAssetsIntact
  /\ rg.result = "ok" =>
       /\ assets = rg.newAssets
       /\ assets # rg.currentAssets
       /\ Len(rg.heap[assets]) = Len(rg.heap[rg.currentAssets])
       /\ \A j \in 1 .. Len(rg.heap[assets]) :
            IF j = rg.sceneIndex + 1
            THEN /\ rg.heap[assets][j] = RegeneratedAsset(rg.sceneIndex)
                 /\ rg.heap[assets][j] # rg.heap[rg.currentAssets][j]
            ELSE rg.heap[assets][j] = rg.heap[rg.currentAssets][j]

\* the middle scene of three was regenerated
C16_Witness ==
  /\ rg.result = "ok"
  /\ rg.sceneIndex = 1
  /\ rg.heap[assets] = <<Asset(0), RegeneratedAsset(1), Asset(2)>>

\* C17: a regeneration that fails or is cancelled, while the asset is generated
\* or while the video is re-assembled, leaves videoBlobUrl and assets as they
\* were and revokes nothing; a URL is revoked only once the new blob exists
\* and the call succeeds.
C17_FailureKeepsPrevious ==
  /\ (rg.result \in {"failed", "cancelled"} \/ rg.pc = "threw") =>
       /\ rg.revoked = {}
       /\ videoBlobUrl = "batchUrl"
       /\ assets = "A0"
       /\ CurrentAssetsIntact
  /\ rg.revoked # {} => rg.result = "ok" /\ videoBlobUrl = "regenUrl"

\* the regeneration was cancelled while the video was re-assembled
C17_Witness ==
  /\ rg.result = "cancelled"
  /\ rg.newAssets = "A1"
  /\ rg.previousBlobUrl = "batchUrl"
  /\ rg.revoked = {}


\* the body parses and its scene list is empty or longer than MAX_SCENES
BadSceneCount(rq) ==
  rq.body.json /\ (Len(rq.body.scenes) = 0 \/ Len(rq.body.scenes) > MAX_SCENES)

\* no ffmpeg run was started for the request: no segment render, no concat
NoFfmpegCall(hrec) ==
  /\ hrec.log = <<>>
  /\ hrec.segmentPaths = <<>>
  /\ hrec.proc = "none"
  /\ hrec.pc \notin {"render", "concat"}

\* C18 as stated: a request with no scene or with more than MAX_SCENES scenes
\* is answered 400 with code VALIDATION_ERROR and starts no render and no
\* concatenation.
C18_SceneCountRejected ==
  \A h \in DOMAIN hs :
    BadSceneCount(hs[h].request) =>
      /\ NoFfmpegCall(hs[h])
      /\ hs[h].pc = "done" => hs[h].status = 400 /\ hs[h].code = "VALIDATION_ERROR"

\* C18, amended: such a request starts no render and no concatenation; it is
\* answered 413 when its content-length header exceeds the body limit, and
\* 400 with code VALIDATION_ERROR otherwise.
C18_SceneCountRejectedPastGate ==
  \A h \in DOMAIN hs :
    BadSceneCount(hs[h].request) =>
      /\ NoFfmpegCall(hs[h])
      /\ hs[h].pc = "done" =>
           IF hs[h].request.contentLength = "large"
           THEN hs[h].status = 413 /\ hs[h].code = "BAD_REQUEST"
           ELSE hs[h].status = 400 /\ hs[h].code = "VALIDATION_ERROR"

\* a request of MAX_SCENES + 1 scenes was answered 400 VALIDATION_ERROR
C18_Witness ==
  \E h \in DOMAIN hs :
    /\ hs[h].pc = "done"
    /\ Len(hs[h].request.body.scenes) = MAX_SCENES + 1
    /\ hs[h].status = 400 /\ hs[h].code = "VALIDATION_ERROR"
    /\ NoFfmpegCall(hs[h])

\* the scene carries exactly one of imageBase64 and videoBase64
ExactlyOneVisual(sc) == sc.visual \in {"image", "video"}

\* C19: a scene that is rendered carries exactly one visual payload, and a
\* request with a scene that carries both or neither renders no scene at all:
\* it is answered with a client error, 400 VALIDATION_ERROR once it is past
\* the content-length gate.
C19_ExactlyOneVisualRendered ==
  \A h \in DOMAIN hs :
    LET scenes == hs[h].request.body.scenes IN
    /\ hs[h].pc = "render" => ExactlyOneVisual(scenes[hs[h].i + 1])
    /\ \A k \in 1 .. Len(hs[h].log) : ExactlyOneVisual(scenes[hs[h].log[k][1] + 1])
    /\ (hs[h].request.body.json /\ \E j \in 1 .. Len(scenes) : ~ExactlyOneVisual(scenes[j])) =>
         /\ hs[h].log = <<>> /\ hs[h].segmentPaths = <<>> /\ hs[h].pc # "render"
         /\ hs[h].pc = "done" =>
              /\ hs[h].status \in {400, 413}
              /\ hs[h].request.contentLength # "large" =>
                   hs[h].status = 400 /\ hs[h].code = "VALIDATION_ERROR"

\* a request whose second scene carries both payloads was answered 400 without
\* its first, well-formed scene being rendered
C19_Witness ==
  \E h \in DOMAIN hs :
    /\ hs[h].pc = "done"
    /\ Len(hs[h].request.body.scenes) = 2
    /\ ExactlyOneVisual(hs[h].request.body.scenes[1])
    /\ hs[h].request.body.scenes[2].visual = "both"
    /\ hs[h].status = 400 /\ hs[h].code = "VALIDATION_ERROR"
    /\ hs[h].log = <<>>


\* C20: the output of a request answered 200 lasts the sum over its scenes of
\* max(durationSeconds, MIN_SCENE_DURATION).
C20_OutputDuration ==
  \A h \in DOMAIN hs :
    hs[h].status = 200 =>
      LET scenes == hs[h].request.body.scenes IN
      hs[h].outputSeconds =
        TotalSeconds([j \in 1 .. Len(scenes) |-> EffectiveSeconds(scenes[j].durationSeconds)])


\* C21: a request whose concatenation had not ended when the deadline of
\* withTimeout expired is answered 500 with the timeout error and never with
\* the video, also when the concatenation ends afterwards.
C21_ConcatDeadline ==
  \A h \in DOMAIN hs :
    hs[h].threw = "Timeout" =>
      /\ hs[h].pc \in {"cleanup", "rmdir", "done"}
      /\ hs[h].status # 200
      /\ hs[h].pc = "done" => hs[h].status = 500 /\ hs[h].code = "INTERNAL_ERROR"

\* the deadline expired, the concatenation ended later, the answer was 500
C21_Witness ==
  \E h \in DOMAIN hs :
    /\ hs[h].pc = "done"
    /\ hs[h].threw = "Timeout"
    /\ hs[h].proc = "ended"
    /\ hs[h].status = 500


\* C22: the signal of the batch is aborted only by cancelVideoGeneration and
\* the signal of a regeneration only by cancelRegenerateScene, so no request
\* of the one is aborted by the cancel function of the other.
C22_IndependentTokens ==
  /\ aborted => "cancelVideoGeneration" \in rg.cancels
  /\ rg.aborted => "cancelRegenerateScene" \in rg.cancels

\* a regeneration was cancelled while a request of the batch was in flight,
\* and the batch signal is not aborted
C22_Witness ==
  /\ cv = "generating"
  /\ \E r \in DOMAIN req : req[r].pc = "fetch"
  /\ rg.pc = "generating"
  /\ rg.aborted
  /\ rg.cancels = {"cancelRegenerateScene"}
  /\ ~aborted


\* C23: a fetch attempt that is in flight when the signal is aborted ends the
\* request at once: its next step is the AbortError leaving fetchWithRetry
\* (the scene's requests are then let go), never a backoff wait or a new fetch.
C23_NoRetryAfterAbort ==
  [][\A r \in ReqIds :
       (req[r].pc = "fetch" /\ aborted /\ req'[r] # req[r]) =>
         req'[r].pc \in {"AbortError", "released"}]_vars

\* the batch was cancelled and a request of a scene rejected with AbortError:
\* the scene failed with that error and its requests were let go
C23_Witness ==
  /\ aborted
  /\ \E i \in Indices :
       /\ fnState[i] = "rejected" /\ fnErr[i] = "AbortError"
       /\ \A k \in Kinds : req[<<i, k>>].pc = "released"


\* C24: a request whose body is larger than MAX_ASSEMBLE_BODY_BYTES never has
\* a workspace created for it, has no scene rendered, and is answered 413.
C24_OversizeRejectedFirst ==
  \A h \in DOMAIN hs :
    hs[h].request.bytes = "over" =>
      /\ ~hs[h].created
      /\ hs[h].log = <<>>
      /\ hs[h].pc = "done" => hs[h].status = 413


\* a request between the creation of its workspace and its response
HasWorkspace(h) == hs[h].created /\ hs[h].pc # "done"

\* C25: two requests that are in flight together never have the same
\* workspace, and a workspace exists only while the request it was created for
\* is in flight.
C25_WorkspacePerRequest ==
  /\ \A h1, h2 \in DOMAIN hs :
       (h1 # h2 /\ HasWorkspace(h1) /\ HasWorkspace(h2)) => hs[h1].tmpDir # hs[h2].tmpDir
  /\ \A d \in DOMAIN fs :
       fs[d] # Absent => \E h \in DOMAIN hs : HasWorkspace(h) /\ hs[h].tmpDir = d


\* C26: attempt i + 1 of withRetry starts no earlier than initialMs * 2^i after
\* attempt i failed, the backoff timer being armed for exactly that delay, and
\* the failure of the last attempt rejects at once, with no timer armed.
C26_BackoffSchedule ==
  /\ \A k \in 1 .. Len(rt.delays) : rt.delays[k] = rt.initialMs * (2 ^ (k - 1))
  /\ \A k \in 1 .. Len(rt.starts) - 1 :
       /\ k <= Len(rt.fails)
       /\ rt.starts[k + 1] >= rt.fails[k] + rt.initialMs * (2 ^ (k - 1))
  /\ rt.pc = "waiting" =>
       /\ Len(rt.fails) < rt.attempts
       /\ rt.wakeAt = rt.fails[Len(rt.fails)] + rt.initialMs * (2 ^ (Len(rt.fails) - 1))
  /\ (rt.attempts > 0 /\ Len(rt.fails) = rt.attempts) =>
       /\ rt.pc = "rejected"
       /\ Len(rt.delays) = rt.attempts - 1

\* three attempts failed: the second started initialMs after the first
\* failure, the third 2 * initialMs after the second, and the third failure
\* rejected
C26_Witness ==
  /\ rt.attempts = 3 /\ Len(rt.fails) = 3 /\ rt.pc = "rejected"
  /\ rt.initialMs = 2
  /\ rt.starts[2] = rt.fails[1] + 2
  /\ rt.starts[3] = rt.fails[2] + 4


\* C27: when the timer of withTimeout rejects the caller's promise, the
\* wrapped withRetry is still running and the step leaves it as it is; from
\* then on the caller's promise stays rejected with the timeout error whatever
\* the wrapped operation goes on to do.
C27_TimeoutDoesNotCancel ==
  [][/\ (tw.pc = "pending" /\ tw'.pc = "rejected" /\ tw'.err = TimeoutMessage) =>
          (rt' = rt /\ rt.pc \in {"calling", "waiting"})
     /\ (tw.pc = "rejected" /\ tw.err = TimeoutMessage) =>
          (tw'.pc = "rejected" /\ tw'.err = TimeoutMessage /\ tw'.at = tw.at)]_vars

\* the caller saw the timeout; after that instant withRetry issued another
\* attempt, which succeeded
C27_Witness ==
  /\ tw.pc = "rejected" /\ tw.err = TimeoutMessage
  /\ rt.pc = "resolved"
  /\ rt.calls >= 2
  /\ rt.starts[Len(rt.starts)] > tw.at


\* C28: the calls of withReplicateThrottle invoke fn in the order in which
\* they were made, and a call invokes fn only when every earlier call has
\* invoked its own and the gate timer of every earlier call is due.
C28_FifoChain ==
  /\ \A k \in DOMAIN thr.fired : thr.fired[k] = k
  /\ \A c, d \in DOMAIN thr.calls :
       (c < d /\ thr.calls[d].pc = "fired") =>
         /\ thr.calls[c].pc = "fired"
         /\ thr.calls[c].firedAt <= thr.calls[d].firedAt
         /\ thr.calls[c].due <= thr.calls[d].firedAt

\* three calls with different spacings have fired in order, the second and
\* the third each after a gate sleep of its own
C28_Witness ==
  /\ thr.fired = <<1, 2, 3>>
  /\ thr.calls[2].ms = 3 /\ thr.calls[3].ms = 2
  /\ thr.calls[2].due > 0
  /\ thr.calls[3].due > thr.calls[2].due


\* C29: every call of withReplicateThrottle comes to invoke its fn (again and
\* again all the calls made so far have invoked theirs), whatever the fns of
\* the calls before it do (resolve, reject or never settle); no
\* call invokes fn twice; and a call settles only after it has invoked fn,
\* with the value or the error of its own fn.
C29_EveryCallFiresOnce ==
  /\ []<>(\A c \in DOMAIN thr.calls : thr.calls[c].pc = "fired")
  /\ [](\A j, k \in DOMAIN thr.fired : thr.fired[j] = thr.fired[k] => j = k)
  /\ [](\A c \in DOMAIN thr.calls :
          /\ thr.calls[c].result = thr.calls[c].fn
          /\ thr.calls[c].result \in {"pending", FnValueOf(c), ErrorOf(c)}
          /\ thr.calls[c].result # "pending" => thr.calls[c].pc = "fired")

\* the fn of the first call rejected, the fn of the second never settled, and
\* the third call has fired and settled with the value of its fn
C29_Witness ==
  /\ Len(thr.calls) = 3
  /\ thr.calls[1].result = ErrorOf(1)
  /\ thr.calls[2].pc = "fired" /\ thr.calls[2].fn = "pending"
  /\ thr.calls[3].pc = "fired" /\ thr.calls[3].result = FnValueOf(3)


\* C30: scenes are rendered one at a time in request order: while scene i is
\* rendered the recorded segment paths are those of the scenes 0 .. i - 1, in
\* order, and these segments exist; and once the concatenation has been
\* started the manifest lists the segments of all N scenes in order 0 .. N - 1,
\* all of which exist while the handler awaits the concatenation.
C30_ScenesInOrder ==
  \A h \in DOMAIN hs :
    LET n == Len(hs[h].request.body.scenes)
        paths == hs[h].segmentPaths
        produced == {j \in 0 .. n - 1 : SegmentFile(j) \in fs[hs[h].tmpDir].files}
    IN
    /\ \A k \in DOMAIN paths : paths[k] = k - 1
    /\ Len(paths) <= n
    /\ hs[h].pc = "render" =>
         /\ Len(paths) = hs[h].i
         /\ produced = 0 .. hs[h].i - 1
    /\ hs[h].proc # "none" =>
         /\ Len(paths) = n
         /\ hs[h].manifest = [k \in 1 .. n |-> k - 1]
    /\ hs[h].pc = "concat" => produced = 0 .. n - 1

\* the concatenation of a request with two scenes was started, the first
\* scene having needed a second render without captions
C30_Witness ==
  \E h \in DOMAIN hs :
    /\ Len(hs[h].request.body.scenes) = 2
    /\ hs[h].pc = "concat"
    /\ hs[h].manifest = <<0, 1>>
    /\ hs[h].log[1] = <<0, "captioned", "error">>
    /\ {SegmentFile(0), SegmentFile(1), ListFile} \subseteq fs[hs[h].tmpDir].files


\* the scenes of the batch whose generation completed
CompletedScenes == {i \in Indices : fnState[i] = "resolved"}

\* C31: the session total is what it was before the batch plus one scene cost
\* for every scene whose generation completed, at every moment of the batch
\* and after it has failed or been cancelled (the batch starts from a total of
\* 0; from SESSION_COST_BLOCK it is refused and no scene is generated).
C31_CostRetained ==
  /\ completed = Cardinality(CompletedScenes)
  /\ \/ totalCost = SceneCostCents * Cardinality(CompletedScenes)
     \/ /\ totalCost = SESSION_COST_BLOCK
        /\ CompletedScenes = {}
        /\ cv \in {"idle", "returned"}

\* the batch returned a failure after one of its scenes had completed and
\* another had failed: the cost of the completed scene is in the total
C31_Witness ==
  /\ cv = "returned" /\ cvResult \in {"failed", "cancelled"}
  /\ \E i, j \in Indices : fnState[i] = "resolved" /\ fnState[j] = "rejected"
  /\ totalCost >= SceneCostCents


\* position i of a list of assets holds an object that generateSceneAsset
\* returned for sceneIndex i, with exactly one of imageBase64 / videoBase64,
\* whichever provider was configured when it was generated
WellIndexed(asset, i) ==
  /\ asset # Hole
  /\ \A useVideo \in BOOLEAN :
       LET a == SceneAssetFields(SceneIndexOf(asset), useVideo) IN
       /\ a.sceneIndex = i
       /\ a.imageBase64 # a.videoBase64

C33_BoundedRetries ==
  LET n == Len(fw.log) IN
  /\ fw.calls = n + (IF fw.pc = "fetch" THEN 1 ELSE 0)
  /\ fw.pc # "idle" => fw.calls <= (IF fw.retries >= 0 THEN fw.retries + 1 ELSE 0)
  /\ \A k \in 1 .. n - 1 : fw.log[k] \in {"5xx", "TypeError"}
  /\ fw.pc = "backoff" => fw.log[n] \in {"5xx", "TypeError"}
  /\ (n > 0 /\ fw.log[n] \in {"ok", "4xx"}) =>
       /\ fw.pc = "returned"
       /\ fw.result = fw.log[n]
  /\ (n > 0 /\ n = fw.retries + 1 /\ fw.log[n] = "5xx") =>
       /\ fw.pc = "returned"
       /\ fw.result = "5xx"

\* with retries = 2 the third fetch call was answered 5xx after a 5xx and a
\* network error, and that response was returned
C33_Witness ==
  /\ fw.retries = 2
  /\ fw.log = <<"5xx", "TypeError", "5xx">>
  /\ fw.calls = 3
  /\ fw.pc = "returned" /\ fw.result = "5xx"


\* C34: in every window of a client key at most RATE_LIMIT_REQUESTS requests
\* reach the route handler; a request is answered 429 only when that many
\* have reached it in the window; a window lasts RATE_LIMIT_WINDOW_MS from the
\* request that opened it, which reached the handler; and a window is opened
\* only at or after the resetAt of the window before it.
C34_RateLimited ==
  \A key \in RateKeys :
    LET w == rl.window[key] IN
    w.n > 0 =>
      /\ w.invoked >= 1
      /\ w.invoked <= RATE_LIMIT_REQUESTS
      /\ w.limited => w.invoked = RATE_LIMIT_REQUESTS
      /\ w.resetAt = w.start + RATE_LIMIT_WINDOW_MS
      /\ w.n > 1 => w.start >= w.prevResetAt
      /\ rl.store[key].has /\ rl.store[key].resetAt = w.resetAt
      /\ now < w.resetAt => rl.store[key].count = w.invoked

\* a key used up its window and was answered 429, and its first request at
\* the resetAt of that window was handed to the handler again
C34_Witness ==
  \E key \in RateKeys :
    LET w == rl.window[key] IN
    /\ w.n = 2 /\ w.prevLimited
    /\ w.start = w.prevResetAt /\ w.invoked = 1


\* C35: fn is called at most once on every index and on no index outside
\* 0 .. N-1, the indices called are exactly those below nextIndex, no two
\* workers wait on the same index, and when the promise of
\* runWithConcurrency has resolved fn has been called exactly once on every
\* index and every one of these calls has resolved.
C35_EachIndexOnce ==
  /\ DOMAIN fnCalls = Indices
  /\ \A i \in Indices :
       /\ fnCalls[i] <= 1
       /\ poolState # "idle" => (fnCalls[i] = 1 <=> i < nextIndex)
  /\ \A w \in DOMAIN workers :
       workers[w].st = "awaiting" =>
         /\ workers[w].i \in Indices
         /\ \A v \in DOMAIN workers :
              (v # w /\ workers[v].st = "awaiting") => workers[v].i # workers[w].i
  /\ poolState = "resolved" =>
       \A i \in Indices : fnCalls[i] = 1 /\ fnState[i] = "resolved"

\* a pool of more items than workers has resolved
C35_Witness ==
  /\ poolState = "resolved"
  /\ NItems = MaxItems /\ NItems > concurrency
  /\ \A i \in Indices : fnCalls[i] = 1


\* C36: once createVideo has returned, no step adds to totalCost and no step
\* completes a scene of it (onSceneComplete, which sets progress.current to
\* the number of completed scenes, so that progress leaves the reset value).
C36_QuietAfterReturn ==
  [][cv = "returned" => (totalCost' = totalCost /\ completed' = completed)]_vars


\* C37: when two regenerateScene invocations for distinct indices overlapped
\* and both have returned {ok: true}, the assets state holds the regenerated
\* asset of each at its index; and regeneratingSceneIndex is non-null exactly
\* while some invocation is in flight.
C37_NoRegenerationLost ==
  /\ (/\ rr.overlapped
      /\ \A c \in RegenCalls : rr.calls[c].result = "ok"
      /\ rr.calls[1].sceneIndex # rr.calls[2].sceneIndex)
     => \A c \in RegenCalls :
          rr.assets[rr.calls[c].sceneIndex + 1] = RegeneratedAsset(rr.calls[c].sceneIndex)
  /\ rr.regeneratingSceneIndex.has <=> \E c \in RegenCalls : RegenInFlight(rr.calls[c])


\* C38: for every scene with a narration edit recorded before
\* handleCreateVideo, the narration handed to createVideo is the text of the
\* latest such edit, whether or not the debounce timer had fired.
C38_EditsReachCreateVideo ==
  nr.called =>
    \A i \in DOMAIN nr.recorded :
      nr.recorded[i].has => nr.passed[i] = nr.recorded[i].v


\* C39: a scene is segmented and timed only when captions are enabled and
\* its normalised narration is non-empty; whenever it is, the segmenter
\* yields at least one segment, no segment is empty and the word counts sum
\* to at least 1; a scene with captions disabled or an empty normalised
\* narration takes the base filter chain.
C39_SegmentsWhenCaptioned ==
  /\ cap.pc \in {"split", "timing", "filters", "captioned"} =>
       cap.captions /\ Len(cap.text) > 0
  /\ cap.pc \in {"timing", "filters", "captioned"} =>
       /\ Len(cap.segments) >= 1
       /\ \A k \in 1 .. Len(cap.segments) : Len(cap.segments[k]) > 0
  /\ cap.pc \in {"filters", "captioned"} => Sum(cap.wordCounts) >= 1
  /\ (cap.pc \notin {"idle", "scene"} /\ (~cap.captions \/ Len(cap.text) = 0)) =>
       cap.pc = "base"

====
